---------------------------- MODULE Spec2Model ----------------------------
(***************************************************************************)
(* Knowledge-base chat: the keyword-overlap Matcher and the Session Engine *)
(* of the session-based ChatInterface (src/components/KnowledgeEditor.tsx, *)
(* second half of the file) together with the store commands of           *)
(* src/contexts/KnowledgeBaseContext.tsx it calls.                         *)
(*                                                                         *)
(* Strings are sequences of one-character strings, so that split(' '),     *)
(* trim() and toLowerCase() are computed and not assumed.  A JavaScript    *)
(* object is a record; an optional field that is absent is absent from the *)
(* record's DOMAIN.  null/undefined is the record Null.                    *)
(***************************************************************************)
EXTENDS Integers, Sequences, FiniteSets, TLC

VARIABLES
    knowledgePoints,     \* kb_knowledge_points as rendered by the provider
    robots,              \* kb_robots
    chatSessions,        \* kb_chat_sessions
    unansweredQuestions, \* kb_unanswered_questions
    selectedRobotId,     \* ChatInterface state
    currentSession,      \* ChatInterface state: a session or Null
    timers,              \* pending setTimeout callbacks of processQuery, FIFO
    now,                 \* the value Date.now() returns
    turnLog,             \* history: one entry per processQuery that was accepted
    call,                \* the last direct call of a pure function, with its result
    categories,          \* kb_categories
    coldStartItems,      \* kb_cold_start_items
    toasts,              \* the notifications of the ToastProvider
    gen,                 \* the generation request of ColdStart / KnowledgeEditor
    llmConfig,           \* localStorage llm_config merged with the defaults
    knowledgeList,       \* KnowledgeList: the FileReader of handleImport
    tabs                 \* two tabs using useLocalStorage on one key

vars == <<knowledgePoints, robots, chatSessions, unansweredQuestions,
          selectedRobotId, currentSession, timers, now, turnLog, call,
          categories, coldStartItems, toasts, gen, llmConfig,
          knowledgeList, tabs>>

storeVars == <<knowledgePoints, robots, chatSessions, unansweredQuestions>>
chatVars == <<selectedRobotId, currentSession, timers, now, turnLog>>
sideVars == <<llmConfig, knowledgeList, tabs>>
genVars == <<categories, coldStartItems, toasts, gen, sideVars>>

Null == [null |-> TRUE]

-----------------------------------------------------------------------------
(* Bounds of the model.                                                    *)

MaxStrLen == 3      \* longest string handed to calculateScore directly
MaxQueryLen == 3    \* longest query handed to findBestMatch directly
MaxKps == 2         \* most knowledge points in a collection
MaxSessions == 2    \* most chat sessions created
MaxTurns == 2       \* most processQuery calls accepted
MaxSkew == 0        \* instants sampled right after a round instant
MaxRounds == 2      \* response delays the clock may run through
MaxSeedKps == 4     \* most knowledge points when a session is seeded directly
MaxDays == 3        \* days sampled for session starts and silence windows
MaxSilentSessions == 2  \* most sessions the silent-questions view is given
MaxCats == 4        \* most categories handed to deleteCategory directly
MaxContentLen == 3  \* most tokens in the content of a model reply
MaxRequests == 2    \* most clicks on the two generation buttons
MaxLines == 3       \* most lines in a streamed reply
MaxCommands == 3    \* most category commands and imports in a behaviour
MaxWrites == 3      \* most setValue calls of the two tabs together

-----------------------------------------------------------------------------
(* Strings.                                                                *)

Letters == {"a", "b", "A"}
Whitespace == {" ", "\t"}
Chars == Letters \cup Whitespace

RECURSIVE StringsOfLen(_, _)
StringsOfLen(S, n) ==
    IF n = 0 THEN {<<>>}
    ELSE {Append(s, c) : s \in StringsOfLen(S, n - 1), c \in S}

StringsUpTo(S, n) == UNION {StringsOfLen(S, k) : k \in 0..n}

\* String.prototype.toLowerCase on the model's alphabet
LowerChar(c) == IF c = "A" THEN "a" ELSE c
toLowerCase(s) == [i \in 1..Len(s) |-> LowerChar(s[i])]

\* String.prototype.trim: strips white space at both ends
RECURSIVE TrimStart(_)
TrimStart(s) ==
    IF s # <<>> /\ Head(s) \in Whitespace THEN TrimStart(Tail(s)) ELSE s
RECURSIVE TrimEnd(_)
TrimEnd(s) ==
    IF s # <<>> /\ s[Len(s)] \in Whitespace
    THEN TrimEnd(SubSeq(s, 1, Len(s) - 1)) ELSE s
trim(s) == TrimEnd(TrimStart(s))

\* s.split(' '): cuts at every single space; never returns an empty array
RECURSIVE split(_)
split(s) ==
    IF \A i \in 1..Len(s) : s[i] # " " THEN <<s>>
    ELSE LET k == CHOOSE i \in 1..Len(s) :
                      s[i] = " " /\ \A j \in 1..(i - 1) : s[j] # " "
         IN <<SubSeq(s, 1, k - 1)>> \o split(SubSeq(s, k + 1, Len(s)))

Range(f) == {f[i] : i \in DOMAIN f}

-----------------------------------------------------------------------------
(* The Matcher.  A score is the JavaScript number num/den, kept as the     *)
(* pair so that comparisons are exact; 0 is 0/1.                           *)

Score(n, d) == [num |-> n, den |-> d]
ScoreGT(x, y) == x.num * y.den > y.num * x.den
ScoreEQ(x, y) == x.num * y.den = y.num * x.den
Zero == Score(0, 1)
Half == Score(1, 2)

\* KnowledgeEditor.tsx 294-305
calculateScore(query, question) ==
    LET queryWords == Range(split(query))
        questionWords == Range(split(question))
        intersectionSize == Cardinality({w \in queryWords : w \in questionWords})
    IN IF Cardinality(questionWords) = 0 THEN Zero
       ELSE Score(intersectionSize, Cardinality(questionWords))


\* a comparison that lets an equal score replace the best so far
Consider_LastWins(acc, kp, lowerQuery, text) ==
    LET score == calculateScore(lowerQuery, toLowerCase(text))
        better == ScoreGT(score, acc.highestScore)
                      \/ ScoreEQ(score, acc.highestScore)
    IN [bestMatch |-> IF better THEN kp ELSE acc.bestMatch,
        highestScore |-> IF better THEN score ELSE acc.highestScore,
        scored |-> acc.scored + 1]

\* One comparison of findBestMatch: score one string of kp against the query
\* and keep kp when it beats the best so far (KnowledgeEditor.tsx 277-281, 283-287)
Consider(acc, kp, lowerQuery, text) ==
    LET score == calculateScore(lowerQuery, toLowerCase(text))
        better == ScoreGT(score, acc.highestScore)
    IN [bestMatch |-> IF better THEN kp ELSE acc.bestMatch,
        highestScore |-> IF better THEN score ELSE acc.highestScore,
        scored |-> acc.scored + 1]

\* kp.similarQuestions.forEach (KnowledgeEditor.tsx 282-288)
RECURSIVE ScanSimilar(_, _, _, _)
ScanSimilar(acc, kp, lowerQuery, i) ==
    IF i > Len(kp.similarQuestions) THEN acc
    ELSE ScanSimilar(Consider(acc, kp, lowerQuery, kp.similarQuestions[i]),
                     kp, lowerQuery, i + 1)

\* a loop body without the status filter
Eligible_AnyStatus(kp) == TRUE

\* The status filter of the loop body (KnowledgeEditor.tsx 276)
Eligible(kp) == kp.status = "published"

\* knowledgePoints.forEach (KnowledgeEditor.tsx 275-289)
RECURSIVE ScanKps(_, _, _, _)
ScanKps(acc, kps, lowerQuery, i) ==
    IF i > Len(kps) THEN acc
    ELSE IF ~Eligible(kps[i]) THEN ScanKps(acc, kps, lowerQuery, i + 1)
    ELSE ScanKps(ScanSimilar(Consider(acc, kps[i], lowerQuery,
                                      kps[i].standardQuestion),
                             kps[i], lowerQuery, 1),
                 kps, lowerQuery, i + 1)

\* a guard that forgets trim()
IsBlank_NoTrim(query) == query = <<>>

\* The early return of findBestMatch (KnowledgeEditor.tsx 269)
IsBlank(query) == trim(query) = <<>>

\* findBestMatch up to its last line: the best candidate, its score and the
\* number of calculateScore calls made
findBestMatchScan(query, kps) ==
    IF IsBlank(query)
    THEN [bestMatch |-> Null, highestScore |-> Zero, scored |-> 0]
    ELSE ScanKps([bestMatch |-> Null, highestScore |-> Zero, scored |-> 0],
                 kps, toLowerCase(query), 1)

\* a threshold that admits 0.5
AboveThreshold_Inclusive(score) == ScoreGT(score, Half) \/ ScoreEQ(score, Half)

\* The threshold of the last line (KnowledgeEditor.tsx 291)
AboveThreshold(score) == ScoreGT(score, Half)

\* KnowledgeEditor.tsx 268-292
findBestMatch(query, kps) ==
    LET r == findBestMatchScan(query, kps)
    IN IF AboveThreshold(r.highestScore) THEN r.bestMatch ELSE Null

\* calculateScore of ChatInterface.tsx (59-70): the larger of the two word
\* sets divides; neither set is ever empty, so || 0 only turns 0 into 0
ChatInterface_calculateScore(query, question) ==
    LET queryWords == Range(split(query))
        questionWords == Range(split(question))
        intersectionSize == Cardinality({w \in queryWords : w \in questionWords})
        larger == IF Cardinality(queryWords) > Cardinality(questionWords)
                  THEN Cardinality(queryWords) ELSE Cardinality(questionWords)
    IN Score(intersectionSize, larger)

\* one comparison of findBestMatch of ChatInterface.tsx (39-43, 46-50)
ChatInterface_Consider(acc, kp, lowerQuery, text) ==
    LET score == ChatInterface_calculateScore(lowerQuery, toLowerCase(text))
        better == ScoreGT(score, acc.highestScore)
    IN [bestMatch |-> IF better THEN kp ELSE acc.bestMatch,
        highestScore |-> IF better THEN score ELSE acc.highestScore]

\* kp.similarQuestions.forEach (ChatInterface.tsx 45-51)
RECURSIVE ChatInterface_ScanSimilar(_, _, _, _)
ChatInterface_ScanSimilar(acc, kp, lowerQuery, i) ==
    IF i > Len(kp.similarQuestions) THEN acc
    ELSE ChatInterface_ScanSimilar(
             ChatInterface_Consider(acc, kp, lowerQuery, kp.similarQuestions[i]),
             kp, lowerQuery, i + 1)

\* knowledgePoints.forEach (ChatInterface.tsx 37-52): every point, whatever
\* its status
RECURSIVE ChatInterface_ScanKps(_, _, _, _)
ChatInterface_ScanKps(acc, kps, lowerQuery, i) ==
    IF i > Len(kps) THEN acc
    ELSE ChatInterface_ScanKps(
             ChatInterface_ScanSimilar(
                 ChatInterface_Consider(acc, kps[i], lowerQuery,
                                        kps[i].standardQuestion),
                 kps[i], lowerQuery, 1),
             kps, lowerQuery, i + 1)

\* findBestMatch of ChatInterface.tsx (30-56)
ChatInterface_findBestMatch(query, kps) ==
    IF trim(query) = <<>> THEN Null
    ELSE LET r == ChatInterface_ScanKps(
                      [bestMatch |-> Null, highestScore |-> Zero],
                      kps, toLowerCase(query), 1)
         IN IF ScoreGT(r.highestScore, Half) THEN r.bestMatch ELSE Null

-----------------------------------------------------------------------------
(* Inputs of the direct calls.                                             *)

Statuses == {"published", "draft", "archived"}

KP(id, cat, std, sims, ans, rel, st) ==
    [id |-> id, categoryId |-> cat, standardQuestion |-> std,
     similarQuestions |-> sims, answer |-> ans, relatedQuestionIds |-> rel,
     status |-> st]

LowerStrings == StringsUpTo(Chars \ {"A"}, MaxStrLen)
QueryStrings == StringsUpTo(Chars, MaxQueryLen)

StdTexts == {<<"a", " ", "b">>, <<"A">>, <<"a", " ", "b", " ", "a", "b">>}
SimLists == {<<>>, << <<"b">>, <<"a", " ">> >>}

\* what a knowledge point contributes to matching: its texts and its status
KpShapes ==
    {[std |-> t, sims |-> l, st |-> "published"] : t \in StdTexts, l \in SimLists}
    \cup {[std |-> t, sims |-> <<>>, st |-> s] :
             t \in StdTexts, s \in {"draft", "archived"}}

RECURSIVE ShapeLists(_)
ShapeLists(n) ==
    IF n = 0 THEN {<<>>}
    ELSE ShapeLists(n - 1)
         \cup {Append(l, x) : l \in {m \in ShapeLists(n - 1) : Len(m) = n - 1},
                              x \in KpShapes}

\* a collection built from shapes; the answer names the position
KpsOf(shapes) ==
    [i \in 1..Len(shapes) |->
        KP(<<"kp", i>>, <<"cat", 1>>, shapes[i].std, shapes[i].sims,
           <<"x", i>>, <<>>, shapes[i].st)]

-----------------------------------------------------------------------------
(* Direct calls of the pure functions: one call in a behaviour, its        *)
(* arguments and result kept in call.                                      *)

CallCalculateScore ==
    /\ call.op = "none"
    /\ \E q \in LowerStrings, c \in LowerStrings :
          call' = [op |-> "calculateScore", query |-> q, question |-> c,
                   result |-> calculateScore(q, c)]
    /\ UNCHANGED <<storeVars, chatVars, genVars>>

CallFindBestMatch ==
    /\ call.op = "none"
    /\ \E q \in QueryStrings, shapes \in ShapeLists(MaxKps) :
          LET kps == KpsOf(shapes)
          IN call' = [op |-> "findBestMatch", query |-> q, kps |-> kps,
                      result |-> findBestMatch(q, kps),
                      scored |-> findBestMatchScan(q, kps).scored,
                      chatInterface |-> ChatInterface_findBestMatch(q, kps)]
    /\ UNCHANGED <<storeVars, chatVars, genVars>>


-----------------------------------------------------------------------------
(* Time.  Date.now() is the variable now; it moves forward to any later    *)
(* instant of a sampled set, so two calls may or may not see one value.    *)

TimeoutDelay == 500


-----------------------------------------------------------------------------
(* The store's initial content (KnowledgeBaseContext.tsx 50-63).           *)

Category(id, name, parentId) == [id |-> id, name |-> name, parentId |-> parentId]

\* parentId: null of a top-level category
NoParent == <<"null">>

\* demoCategories: cat-4 is a child of cat-2
demoCategories ==
    << Category(<<"cat", 1>>, "general", NoParent),
       Category(<<"cat", 2>>, "billing", NoParent),
       Category(<<"cat", 3>>, "support", NoParent),
       Category(<<"cat", 4>>, "subscription", <<"cat", 2>>) >>

Kp1Id == <<"kp", 1>>
Kp2Id == <<"kp", 2>>

demoKPs ==
    << KP(Kp1Id, <<"cat", 1>>, <<"a">>, << <<"b">> >>, <<"x", 1>>,
          <<Kp2Id>>, "published"),
       KP(Kp2Id, <<"cat", 2>>, <<"a", "b">>, <<>>, <<"x", 2>>,
          <<>>, "draft") >>

Robot(id, avatar, welcome) ==
    [id |-> id, avatar |-> avatar, welcomeMessage |-> welcome]

demoRobots == << Robot(<<"robot", 0>>, "avatar0", <<"w">>) >>

\* a robot added in an earlier visit; it has no welcome message
addedRobot == Robot(<<"robot", 1>>, "avatar1", <<>>)

\* the first instant: later than the numbers in the ids of the demo data
StartTime == Len(demoKPs) + 1

Instants ==
    {StartTime + i + k * TimeoutDelay : i \in 0..MaxSkew, k \in 0..MaxRounds}

DefaultWelcome == <<"h", "i">>
DefaultSuggestions == << <<"a">>, <<"a", "b">> >>
FallbackText == <<"n", "o">>
SuggestionCount == 3

-----------------------------------------------------------------------------
(* Store commands (KnowledgeBaseContext.tsx).                              *)

\* Array.prototype.find by id; Null when there is none
RECURSIVE FindById(_, _, _)
FindById(list, id, i) ==
    IF i > Len(list) THEN Null
    ELSE IF list[i].id = id THEN list[i]
    ELSE FindById(list, id, i + 1)

\* getKnowledgePointById (KnowledgeBaseContext.tsx 140-142)
getKnowledgePointById(kps, id) == FindById(kps, id, 1)

\* { ...kp, ...kpUpdate }
Merge(rec, upd) ==
    [f \in DOMAIN rec |-> IF f \in DOMAIN upd THEN upd[f] ELSE rec[f]]

\* addKnowledgePoint (KnowledgeBaseContext.tsx 104-112)
addKnowledgePoint(kps, data, t) ==
    Append(kps, Merge(KP(<<"kp", t>>, Null, Null, Null, Null, Null, Null), data))

\* updateKnowledgePoint (KnowledgeBaseContext.tsx 114-116)
updateKnowledgePoint(kps, id, kpUpdate) ==
    [i \in 1..Len(kps) |->
        IF kps[i].id = id THEN Merge(kps[i], kpUpdate) ELSE kps[i]]

\* deleteKnowledgePoint (KnowledgeBaseContext.tsx 118-120)
deleteKnowledgePoint(kps, id) == SelectSeq(kps, LAMBDA kp : kp.id # id)

\* addChatSession (KnowledgeBaseContext.tsx 144-146)
addChatSession(sessions, session) == Append(sessions, session)

\* updateChatSession (KnowledgeBaseContext.tsx 148-150)
updateChatSession(sessions, updatedSession) ==
    [i \in 1..Len(sessions) |->
        IF sessions[i].id = updatedSession.id THEN updatedSession
        ELSE sessions[i]]

\* getChatSessionById (KnowledgeBaseContext.tsx 152-154)
getChatSessionById(sessions, sessionId) == FindById(sessions, sessionId, 1)

\* addUnansweredQuestion (KnowledgeBaseContext.tsx 156-162)
addUnansweredQuestion(questions, question, t) ==
    Append(questions,
           [id |-> <<"uq", t>>, question |-> question.question,
            sessionId |-> question.sessionId, userId |-> question.userId,
            robotId |-> question.robotId, timestamp |-> question.timestamp])

\* deleteRobot (KnowledgeBaseContext.tsx 181-183)
deleteRobot(list, id) == SelectSeq(list, LAMBDA r : r.id # id)


-----------------------------------------------------------------------------
(* The session-based ChatInterface (KnowledgeEditor.tsx 226-371).          *)

\* `user-${Math.random().toString(36).substr(2, 9)}`: a value no earlier
\* session of the store has (KnowledgeEditor.tsx 247)
FreshUserId(sessions) == <<"user", Len(sessions) + 1>>

\* robots.find(r => r.id === selectedRobotId) || null (KnowledgeEditor.tsx 236)
SelectedRobot(list, id) == FindById(list, id, 1)

\* a seeding that falls back whenever there are fewer points than buttons
StarterSuggestions_PairBelowThree(kps) ==
    IF Len(kps) < SuggestionCount THEN DefaultSuggestions
    ELSE [i \in 1..SuggestionCount |-> kps[i].standardQuestion]

\* knowledgePoints.slice(0, 3).map(kp => kp.standardQuestion) and its
\* fallback (KnowledgeEditor.tsx 244, 256)
StarterSuggestions(kps) ==
    LET n == IF Len(kps) < SuggestionCount THEN Len(kps) ELSE SuggestionCount
        starterQuestions == [i \in 1..n |-> kps[i].standardQuestion]
    IN IF Len(starterQuestions) > 0 THEN starterQuestions
       ELSE DefaultSuggestions

\* the session object the effect builds (KnowledgeEditor.tsx 245-259)
NewSession(robot, kps, t, uid) ==
    [id |-> <<"session", t>>, userId |-> uid, startTime |-> t,
     robotId |-> robot.id,
     messages |->
        << [id |-> <<"bot-init", 0>>, sender |-> "bot",
            text |-> IF robot.welcomeMessage # <<>>
                     THEN robot.welcomeMessage ELSE DefaultWelcome,
            senderAvatar |-> robot.avatar,
            suggestions |-> StarterSuggestions(kps)] >>]

\* a log that puts the new message first
AppendMessage_Prepend(session, message) ==
    [session EXCEPT !.messages = <<message>> \o @]

\* [...prevSession.messages, message] (KnowledgeEditor.tsx 315, 353)
AppendMessage(session, message) ==
    [session EXCEPT !.messages = Append(@, message)]

\* The effect on [selectedRobotId, robots, knowledgePoints]
\* (KnowledgeEditor.tsx 234-262), run with the values just committed.
RunEffect(robotList, kps, selId, sessions) ==
    LET robot == SelectedRobot(robotList, selId)
    IN IF robot = Null
       THEN /\ currentSession' = Null
            /\ chatSessions' = sessions
       ELSE LET newSession ==
                    NewSession(robot, kps, now, FreshUserId(sessions))
            IN /\ currentSession' = newSession
               /\ chatSessions' = addChatSession(sessions, newSession)

\* a filter that keeps every point found, whatever its status
KeepRelated_AnyStatus(kp) == kp # Null

\* the related questions of a reply (KnowledgeEditor.tsx 324-326)
KeepRelated(kp) == kp # Null /\ kp.status = "published"
RelatedQuestions(match, kps) ==
    SelectSeq([i \in 1..Len(match.relatedQuestionIds) |->
               getKnowledgePointById(kps, match.relatedQuestionIds[i])],
           KeepRelated)

\* the bot message of the timer callback (KnowledgeEditor.tsx 323-341)
BotMessage(tm, t) ==
    IF tm.match # Null
    THEN [id |-> <<"bot", t>>, text |-> tm.match.answer, sender |-> "bot",
          senderAvatar |-> tm.avatar,
          relatedQuestions |-> RelatedQuestions(tm.match, tm.kps)]
    ELSE [id |-> <<"bot", t>>, text |-> FallbackText, sender |-> "bot",
          senderAvatar |-> tm.avatar]

\* a record that reads the session of the moment the callback runs
MissRecord_CurrentSession(tm, t) ==
    [question |-> tm.query,
     sessionId |-> IF currentSession = Null THEN tm.sessionId
                   ELSE currentSession.id,
     userId |-> IF currentSession = Null THEN tm.userId
                ELSE currentSession.userId,
     robotId |-> IF currentSession = Null THEN tm.robotId
                 ELSE currentSession.robotId,
     timestamp |-> t]

\* the miss branch records the query (KnowledgeEditor.tsx 335, 342-348)
RecordsMiss(tm) == tm.match = Null
MissRecord(tm, t) ==
    [question |-> tm.query, sessionId |-> tm.sessionId, userId |-> tm.userId,
     robotId |-> tm.robotId, timestamp |-> t]

\* processQuery up to setTimeout (KnowledgeEditor.tsx 307-320, 358-360)
processQuery(query) ==
    /\ currentSession # Null
    /\ SelectedRobot(robots, selectedRobotId) # Null
    /\ Len(turnLog) < MaxTurns
    /\ LET userMessage == [id |-> <<"user", now>>, text |-> query,
                           sender |-> "user"]
           match == findBestMatch(query, knowledgePoints)
       IN /\ currentSession' = AppendMessage(currentSession, userMessage)
          /\ timers' = Append(timers,
                 [turn |-> Len(turnLog) + 1, query |-> query, match |-> match,
                  sessionId |-> currentSession.id,
                  userId |-> currentSession.userId,
                  robotId |-> currentSession.robotId,
                  avatar |-> SelectedRobot(robots, selectedRobotId).avatar,
                  kps |-> knowledgePoints, due |-> now + TimeoutDelay])
          /\ turnLog' = Append(turnLog,
                 [query |-> query, match |-> match, kps |-> knowledgePoints,
                  sessionNo |-> Len(chatSessions),
                  session |-> [id |-> currentSession.id,
                               userId |-> currentSession.userId,
                               robotId |-> currentSession.robotId],
                  userMessage |-> userMessage,
                  userPos |-> Len(currentSession.messages) + 1,
                  fired |-> FALSE, targetNo |-> 0, botPos |-> 0,
                  reply |-> Null, writes |-> 0])
    /\ UNCHANGED <<storeVars, selectedRobotId, now, call, genVars>>

\* the text field holds something that trims to non-empty (KnowledgeEditor.tsx 363-366)
SendTexts == {<<"A", "b">>}

HandleSend ==
    \E input \in SendTexts :
        /\ ~IsBlank(input)
        /\ processQuery(input)

\* the buttons a message shows (KnowledgeEditor.tsx 380-399)
Shown(message) ==
    (IF "relatedQuestions" \in DOMAIN message
     THEN {kp.standardQuestion : kp \in Range(message.relatedQuestions)}
     ELSE {})
    \cup (IF "suggestions" \in DOMAIN message
          THEN Range(message.suggestions) ELSE {})

\* KnowledgeEditor.tsx 368-371
HandleSuggestionClick ==
    /\ currentSession # Null
    /\ \E message \in Range(currentSession.messages) :
          \E question \in Shown(message) : processQuery(question)

\* The setTimeout callback (KnowledgeEditor.tsx 320-358); callbacks of one
\* delay run in the order they were set.
TimerFire ==
    /\ timers # <<>>
    /\ Head(timers).due <= now
    /\ LET tm == Head(timers)
           botMessage == BotMessage(tm, now)
           finalSession == AppendMessage(currentSession, botMessage)
       IN /\ timers' = Tail(timers)
          /\ unansweredQuestions' =
                IF RecordsMiss(tm)
                THEN addUnansweredQuestion(unansweredQuestions,
                                           MissRecord(tm, now), now)
                ELSE unansweredQuestions
          /\ IF currentSession = Null
             THEN UNCHANGED <<currentSession, chatSessions>>
             ELSE /\ currentSession' = finalSession
                  /\ chatSessions' = updateChatSession(chatSessions, finalSession)
          /\ turnLog' = [turnLog EXCEPT ![tm.turn] =
                [@ EXCEPT !.fired = TRUE, !.reply = botMessage,
                          !.targetNo = IF currentSession = Null THEN 0
                                       ELSE Len(chatSessions),
                          !.botPos = IF currentSession = Null THEN 0
                                     ELSE Len(currentSession.messages) + 1,
                          !.writes = IF currentSession = Null THEN 0 ELSE 1]]
    /\ UNCHANGED <<knowledgePoints, robots, selectedRobotId, now, call, genVars>>

\* the robot <select> (KnowledgeEditor.tsx 413-422), then the effect
SelectRobot ==
    /\ Len(chatSessions) < MaxSessions
    /\ \E r \in Range(robots) :
          /\ r.id # selectedRobotId
          /\ selectedRobotId' = r.id
          /\ RunEffect(robots, knowledgePoints, r.id, chatSessions)
    /\ UNCHANGED <<knowledgePoints, robots, unansweredQuestions, timers, now,
                   turnLog, call, genVars>>

-----------------------------------------------------------------------------
(* Edits of the stored collections reaching the mounted chat view (the     *)
(* provider re-renders it and the effect runs).                            *)

KpUpdates == {[status |-> st] : st \in Statuses}

\* what the editor saves (KnowledgeEditor.tsx 43-53: the standard question
\* trims to non-empty) and what ColdStart.handleApprove adds (part_000 56-67:
\* the generated or edited question as it is, here a blank one)
NewKpData ==
    {[categoryId |-> <<"cat", 1>>, standardQuestion |-> <<"a", "b">>,
      similarQuestions |-> <<>>, answer |-> <<"x", 3>>,
      relatedQuestionIds |-> <<Kp1Id, Kp2Id>>, status |-> "published"],
     [categoryId |-> <<"cat", 1>>, standardQuestion |-> <<" ">>,
      similarQuestions |-> <<>>, answer |-> <<"x", 4>>,
      relatedQuestionIds |-> <<>>, status |-> "published"]}

KpsChanged(kps) ==
    /\ Len(chatSessions) < MaxSessions
    /\ knowledgePoints' = kps
    /\ RunEffect(robots, kps, selectedRobotId, chatSessions)
    /\ UNCHANGED <<robots, unansweredQuestions, selectedRobotId, timers, now,
                   turnLog, call, genVars>>

AddKnowledgePoint ==
    /\ Len(knowledgePoints) < MaxKps
    /\ \E data \in NewKpData :
          KpsChanged(addKnowledgePoint(knowledgePoints, data, now))

UpdateKnowledgePoint ==
    \E kp \in Range(knowledgePoints), kpUpdate \in KpUpdates :
        KpsChanged(updateKnowledgePoint(knowledgePoints, kp.id, kpUpdate))

DeleteKnowledgePoint ==
    \E kp \in Range(knowledgePoints) :
        KpsChanged(deleteKnowledgePoint(knowledgePoints, kp.id))

RobotsChanged(list) ==
    /\ Len(chatSessions) < MaxSessions
    /\ robots' = list
    /\ RunEffect(list, knowledgePoints, selectedRobotId, chatSessions)
    /\ UNCHANGED <<knowledgePoints, unansweredQuestions, selectedRobotId,
                   timers, now, turnLog, call, genVars>>

DeleteRobot ==
    \E r \in Range(robots) : RobotsChanged(deleteRobot(robots, r.id))

Tick ==
    /\ \E t \in Instants : t > now /\ now' = t
    /\ UNCHANGED <<storeVars, selectedRobotId, currentSession, timers,
                   turnLog, call, genVars>>

-----------------------------------------------------------------------------
(* The generation requests of ColdStart (handleStart) and KnowledgeEditor   *)
(* (handleGenerateSimilar).                                                *)

\* two tabs that have mounted useLocalStorage on one key (useLocalStorage.ts
\* 4-15): each holds the stored value, no storage event is on its way
TabIds == {1, 2}
TabsMounted ==
    [memory |-> [t \in TabIds |-> <<>>], storage |-> <<>>,
     events |-> [t \in TabIds |-> <<>>], writes |-> 0]

\* DEFAULT_LLM_CONFIG (geminiService.ts 3-10): no key, streaming on
DEFAULT_LLM_CONFIG == [apiKey |-> <<>>, streamMode |-> TRUE]

\* no request pending: isLoading / isGenerating false, no error shown, the
\* editor's list of similar questions empty, no click yet, nothing settled
GenIdle ==
    [pending |-> "none", request |-> Null, error |-> Null,
     similarQuestions |-> <<>>, clicks |-> 0, last |-> Null]

-----------------------------------------------------------------------------
(* The chat view mounted over the demo data and one more robot: the first  *)
(* run of the effect has created the first session.                        *)

Init ==
    /\ knowledgePoints = demoKPs
    /\ robots = Append(demoRobots, addedRobot)
    /\ unansweredQuestions = <<>>
    /\ selectedRobotId = demoRobots[1].id
    /\ now = StartTime
    /\ LET first == NewSession(demoRobots[1], demoKPs, StartTime,
                                FreshUserId(<<>>))
       IN /\ currentSession = first
          /\ chatSessions = <<first>>
    /\ timers = <<>>
    /\ turnLog = <<>>
    /\ call = [op |-> "none"]
    /\ categories = demoCategories
    /\ coldStartItems = <<>>
    /\ toasts = <<>>
    /\ gen = GenIdle
    /\ llmConfig = DEFAULT_LLM_CONFIG
    /\ knowledgeList = [reader |-> Null, lastImport |-> Null, commands |-> 0]
    /\ tabs = TabsMounted

Next ==
    \/ HandleSend
    \/ HandleSuggestionClick
    \/ TimerFire
    \/ SelectRobot
    \/ AddKnowledgePoint
    \/ UpdateKnowledgePoint
    \/ DeleteKnowledgePoint
    \/ DeleteRobot
    \/ Tick

Spec == Init /\ [][Next]_vars

\* the delayed callback runs once its delay has passed, and time passes
FairSpec == Spec /\ WF_vars(TimerFire) /\ WF_vars(Tick)

\* collections of up to MaxSeedKps points with few distinct questions
RECURSIVE SeedLists(_)
SeedLists(n) ==
    IF n = 0 THEN {<<>>}
    ELSE SeedLists(n - 1)
         \cup {Append(l, [std |-> t, sims |-> <<>>, st |-> "published"]) :
                   l \in {m \in SeedLists(n - 1) : Len(m) = n - 1},
                   t \in {<<"a">>, <<"b">>}}

\* the effect building a session over a given collection
\* (KnowledgeEditor.tsx 244-259)
CallNewSession ==
    /\ call.op = "none"
    /\ \E shapes \in SeedLists(MaxSeedKps), robot \in Range(robots) :
          LET kps == KpsOf(shapes)
          IN call' = [op |-> "newSession", kps |-> kps, robot |-> robot,
                      result |-> NewSession(robot, kps, now, FreshUserId(<<>>))]
    /\ UNCHANGED <<storeVars, chatVars, genVars>>

NextMatch ==
    \/ CallCalculateScore
    \/ CallFindBestMatch
    \/ CallNewSession

SpecMatch == Init /\ [][NextMatch]_vars


-----------------------------------------------------------------------------
(* The silent-questions view (SilentQuestionsView, part_000 645-690).  Time *)
(* is counted in days: a startTime and the day of new Date() are integers.  *)

\* robotFilter '' ("all robots")
NoFilter == ""

\* String.prototype.includes
includes(s, sub) ==
    \E i \in 1..(Len(s) + 1) :
        /\ i + Len(sub) - 1 <= Len(s)
        /\ SubSeq(s, i, i + Len(sub) - 1) = sub

\* a threshold moved forward instead of back
ThresholdDate_Forward(today, silenceDays) == today + silenceDays

\* thresholdDate.setDate(thresholdDate.getDate() - silenceDays) (664-665)
ThresholdDate(today, silenceDays) == today - silenceDays

\* a session filter that admits the threshold day itself
IsRecent_Inclusive(startTime, thresholdDate) == startTime >= thresholdDate

\* new Date(s.startTime) > thresholdDate (668)
IsRecent(startTime, thresholdDate) == startTime > thresholdDate

\* a usage count that takes every message
CountsAsUsed_AnySender(message) == TRUE

\* if (message.sender === 'bot') (675)
CountsAsUsed(message) == message.sender = "bot"

\* the memo silentKnowledgePoints (663-690)
silentKnowledgePoints(kps, sessions, today, silenceDays, robotFilter, searchTerm) ==
    LET thresholdDate == ThresholdDate(today, silenceDays)
        recentSessions ==
            SelectSeq(sessions, LAMBDA ses :
                /\ IsRecent(ses.startTime, thresholdDate)
                /\ (robotFilter = NoFilter \/ ses.robotId = robotFilter))
        usedAnswers ==
            UNION {{m.text : m \in {x \in Range(recentSessions[i].messages) :
                                        CountsAsUsed(x)}} :
                      i \in 1..Len(recentSessions)}
    IN SelectSeq(kps, LAMBDA kp :
           /\ kp.status = "published"
           /\ kp.answer \notin usedAnswers
           /\ (searchTerm = <<>>
                  \/ includes(toLowerCase(kp.standardQuestion),
                              toLowerCase(searchTerm))))

\* the day new Date() falls on: the last sampled day but one, so that a
\* session can start after it
Today == MaxDays - 1

\* the collections the view is given
SilentKps ==
    {<< KP(Kp1Id, <<"cat", 1>>, <<"a">>, <<>>, <<"x", 1>>, <<>>, "published"),
        KP(Kp2Id, <<"cat", 2>>, <<"b">>, <<>>, ans, <<>>, st) >> :
        ans \in {<<"x", 1>>, <<"x", 2>>}, st \in Statuses}

SilentSessionShapes ==
    {[id |-> <<"session", d>>, userId |-> <<"user", 1>>, startTime |-> d,
      robotId |-> r,
      messages |-> << [id |-> <<"bot-init", 0>>, sender |-> "bot",
                       text |-> DefaultWelcome],
                      [id |-> <<m.sender, d>>, sender |-> m.sender,
                       text |-> m.text] >>] :
        d \in 0..MaxDays, r \in {demoRobots[1].id, addedRobot.id},
        m \in {[sender |-> "bot", text |-> <<"x", 1>>],
               [sender |-> "bot", text |-> <<"x", 2>>],
               [sender |-> "user", text |-> <<"x", 1>>]}}

RECURSIVE SilentSessionLists(_)
SilentSessionLists(n) ==
    IF n = 0 THEN {<<>>}
    ELSE SilentSessionLists(n - 1)
         \cup {Append(l, x) :
                   l \in {m \in SilentSessionLists(n - 1) : Len(m) = n - 1},
                   x \in SilentSessionShapes}

\* with a robot selected the window is silenceThresholdDays || 30, never 0
\* (653-660); without, it is what the number input holds (710)
WindowFor(robotFilter) ==
    IF robotFilter = NoFilter THEN 0..MaxDays ELSE 1..MaxDays

\* the view rendered over given collections and view state
CallSilentKnowledgePoints ==
    /\ call.op = "none"
    /\ \E kps \in SilentKps, sessions \in SilentSessionLists(MaxSilentSessions),
          robotFilter \in {NoFilter, demoRobots[1].id, addedRobot.id},
          searchTerm \in {<<>>, <<"A">>} :
          \E silenceDays \in WindowFor(robotFilter) :
              call' = [op |-> "silentKnowledgePoints", kps |-> kps,
                       sessions |-> sessions, today |-> Today,
                       silenceDays |-> silenceDays,
                       robotFilter |-> robotFilter, searchTerm |-> searchTerm,
                       result |-> silentKnowledgePoints(kps, sessions, Today,
                                      silenceDays, robotFilter, searchTerm),
                       previous |-> Null]
    /\ UNCHANGED <<storeVars, chatVars, genVars>>

\* silenceDays changes and the memo is computed again (690, 710); previous
\* keeps the window and the list shown before the change
SilenceDaysChanged ==
    /\ call.op = "silentKnowledgePoints"
    /\ \E silenceDays \in WindowFor(call.robotFilter) \ {call.silenceDays} :
          call' = [call EXCEPT
                     !.previous = [silenceDays |-> call.silenceDays,
                                   result |-> call.result],
                     !.silenceDays = silenceDays,
                     !.result = silentKnowledgePoints(call.kps, call.sessions,
                                    call.today, silenceDays, call.robotFilter,
                                    call.searchTerm)]
    /\ UNCHANGED <<storeVars, chatVars, genVars>>

NextSilent ==
    \/ CallSilentKnowledgePoints
    \/ SilenceDaysChanged

SpecSilent == Init /\ [][NextSilent]_vars

-----------------------------------------------------------------------------
(* deleteCategory (KnowledgeBaseContext.tsx 85-102).                       *)

\* a search that stops at the children
getSubCats_ChildrenOnly(parentId, allCategories) ==
    {allCategories[i].id :
        i \in {j \in 1..Len(allCategories) :
                  allCategories[j].parentId = parentId}}

\* getSubCats (87-94): the ids it adds to catsToDelete
RECURSIVE getSubCats(_, _)
getSubCats(parentId, allCategories) ==
    UNION {{allCategories[i].id} \cup getSubCats(allCategories[i].id, allCategories) :
              i \in {j \in 1..Len(allCategories) :
                        allCategories[j].parentId = parentId}}

\* both collections after deleteCategory(id): the updater of categories
\* fills catsToDelete before the updater of knowledgePoints reads it
deleteCategory(cats, kps, id) ==
    LET catsToDelete == {id} \cup getSubCats(id, cats)
    IN [categories |-> SelectSeq(cats, LAMBDA c : c.id \notin catsToDelete),
        knowledgePoints |->
            SelectSeq(kps, LAMBDA kp : kp.categoryId \notin catsToDelete)]

\* category lists as addCategory builds them (76-79): the parent of a
\* category is top level or a category added before it
RECURSIVE CategoryLists(_)
CategoryLists(n) ==
    IF n = 0 THEN {<<>>}
    ELSE CategoryLists(n - 1)
         \cup {Append(l, Category(<<"cat", n>>, "name", parent)) :
                   l \in {m \in CategoryLists(n - 1) : Len(m) = n - 1},
                   parent \in {NoParent} \cup {<<"cat", k>> : k \in 1..(n - 1)}}

\* ids a knowledge point or a call may name: the categories and one that
\* does not exist
CategoryIds == {<<"cat", k>> : k \in 1..(MaxCats + 1)}

\* up to two knowledge points, each in some category
CategorisedKps ==
    {<<>>}
    \cup {<< KP(Kp1Id, c, <<"a">>, <<>>, <<"x", 1>>, <<>>, "published") >> :
              c \in CategoryIds}
    \cup {<< KP(Kp1Id, c, <<"a">>, <<>>, <<"x", 1>>, <<>>, "published"),
             KP(Kp2Id, d, <<"b">>, <<>>, <<"x", 2>>, <<>>, "draft") >> :
              c \in CategoryIds, d \in CategoryIds}

CallDeleteCategory ==
    /\ call.op = "none"
    /\ \E cats \in CategoryLists(MaxCats), kps \in CategorisedKps,
          id \in CategoryIds :
          call' = [op |-> "deleteCategory", categories |-> cats,
                   knowledgePoints |-> kps, id |-> id,
                   result |-> deleteCategory(cats, kps, id)]
    /\ UNCHANGED <<storeVars, chatVars, genVars>>

NextStore ==
    \/ CallDeleteCategory

SpecStore == Init /\ [][NextStore]_vars

-----------------------------------------------------------------------------
(* The generation client (geminiService.ts).  A reply of the endpoint is a *)
(* record; the content of its message is a sequence of tokens: a fence, a  *)
(* run of whitespace, a JSON document or text that is not JSON.            *)

\* JSON values as JSON.parse returns them
Undefined == [type |-> "undefined"]
JNull == [type |-> "null"]
JNumber(n) == [type |-> "number", value |-> n]
JArray(items) == [type |-> "array", items |-> items]
JObject(sq, qa) ==
    [type |-> "object", similar_questions |-> sq, qa_pairs |-> qa]

\* result && ...: null and 0 are falsy, objects and arrays are not
Truthy(v) ==
    /\ v.type \notin {"undefined", "null"}
    /\ v.type = "number" => v.value # 0

\* result.similar_questions, result.qa_pairs: undefined unless the value
\* is an object that has the field
Field(v, name) == IF v.type = "object" THEN v[name] ELSE Undefined

\* Array.isArray
IsArray(v) == v.type = "array"

QaPair == [question |-> <<"a">>, answer |-> <<"x", 1>>]

\* documents a model may answer with
JsonDocs ==
    {JNull, JNumber(0), JArray(<<>>),
     JObject(Undefined, Undefined),
     JObject(JNumber(1), Undefined),
     JObject(JArray(<<>>), Undefined),
     JObject(JArray(<< <<"a">>, <<"b">> >>), Undefined),
     JObject(Undefined, JNumber(1)),
     JObject(Undefined, JArray(<<>>)),
     JObject(Undefined, JArray(<<QaPair>>))}

FenceJson == [t |-> "fence-json"]
Fence == [t |-> "fence"]
Space == [t |-> "whitespace"]
Text == [t |-> "text"]
Doc(v) == [t |-> "doc", value |-> v]

Tokens == {FenceJson, Fence, Space, Text} \cup {Doc(v) : v \in JsonDocs}

RECURSIVE ContentsUpTo(_)
ContentsUpTo(n) ==
    IF n = 0 THEN {<<>>}
    ELSE ContentsUpTo(n - 1)
         \cup {Append(c, k) : c \in {d \in ContentsUpTo(n - 1) : Len(d) = n - 1},
                              k \in Tokens}

\* \s* at the start of a content
RECURSIVE SkipSpace(_)
SkipSpace(content) ==
    IF content # <<>> /\ Head(content) = Space THEN SkipSpace(Tail(content))
    ELSE content

\* whitespace at the end of a content
RECURSIVE DropSpaceAtEnd(_)
DropSpaceAtEnd(content) ==
    IF content # <<>> /\ content[Len(content)] = Space
    THEN DropSpaceAtEnd(SubSeq(content, 1, Len(content) - 1))
    ELSE content

\* content.trim(), then the opening fence with the whitespace after it and
\* the closing fence are removed (113-116)
cleanedContent(content) ==
    LET trimmed == DropSpaceAtEnd(SkipSpace(content))
        opened == IF trimmed # <<>> /\ Head(trimmed) = FenceJson
                  THEN SkipSpace(Tail(trimmed)) ELSE trimmed
    IN IF opened # <<>> /\ opened[Len(opened)] = Fence
       THEN SubSeq(opened, 1, Len(opened) - 1) ELSE opened

\* JSON.parse: one document, whitespace around it allowed
JSONparse(content) ==
    LET body == SelectSeq(content, LAMBDA k : k # Space)
    IN IF Len(body) = 1 /\ body[1].t = "doc"
       THEN [ok |-> TRUE, value |-> body[1].value]
       ELSE [ok |-> FALSE]

\* outcomes of an async function
Resolved(v) == [ok |-> TRUE, value |-> v]
Rejected(e) == [ok |-> FALSE, error |-> e]
Err(name, message) == [name |-> name, message |-> message]

NetworkAdvice == "network request failed: use the connection test in settings"
InvalidKey == "API Key contains invalid characters"

\* characters of an API key outside U+0000..U+00FF (the regex of line 47);
\* "k" and "U+00FF" are inside
NonLatin1 == {"U+0100", "U+5BC6"}

\* llm_config: an API key of Latin-1 characters, and one with a character
\* outside Latin-1
LlmConfigs == {[apiKey |-> <<"k">>], [apiKey |-> <<"k", "U+5BC6">>]}

\* a check that lets every key pass
validateHeaders_AnyKey(config) == TRUE

\* validateHeaders (44-51): TRUE when it does not throw
validateHeaders(config) ==
    \A i \in 1..Len(config.apiKey) : config.apiKey[i] \notin NonLatin1

\* handleApiError (59-68)
handleApiError(error) ==
    IF error.name = "TypeError" /\ error.message = "Failed to fetch"
    THEN Err("Error", NetworkAdvice)
    ELSE IF error.name \in {"Error", "TypeError", "SyntaxError"} THEN error
    ELSE Err("Error", "unknown error")

\* what fetch and the endpoint may do: fetch rejects; a status that is not
\* 2xx; a body that is not JSON; a JSON body without
\* choices[0].message.content; a body with a content
Reply(kind, ok, json, hasContent, content) ==
    [kind |-> kind, ok |-> ok, json |-> json, hasContent |-> hasContent,
     content |-> content]

Responses ==
    {Reply("rejected", FALSE, FALSE, FALSE, <<>>),
     Reply("response", FALSE, FALSE, FALSE, <<>>),
     Reply("response", TRUE, FALSE, FALSE, <<>>),
     Reply("response", TRUE, TRUE, FALSE, <<>>)}
    \cup {Reply("response", TRUE, TRUE, TRUE, c) :
             c \in ContentsUpTo(MaxContentLen)}

\* callChatCompletions (77-127)
callChatCompletions(config, response) ==
    LET parsed == JSONparse(cleanedContent(response.content))
        attempt ==
            IF ~validateHeaders(config)
            THEN Rejected(Err("Error", InvalidKey))
            ELSE IF response.kind = "rejected"
            THEN Rejected(Err("TypeError", "Failed to fetch"))
            ELSE IF ~response.ok
            THEN Rejected(Err("Error", "API request failed with status"))
            ELSE IF ~response.json
            THEN Rejected(Err("SyntaxError", "Unexpected token"))
            ELSE IF ~response.hasContent \/ response.content = <<>>
            THEN Rejected(Err("Error", "Invalid response structure from API"))
            ELSE IF ~parsed.ok
            THEN Rejected(Err("Error",
                              "API returned content that is not valid JSON."))
            ELSE Resolved(parsed.value)
    IN IF attempt.ok THEN attempt
       ELSE Rejected(handleApiError(attempt.error))

\* the body shared by the two generators (275-285, 300-310)
Generate(config, response, field) ==
    LET result == callChatCompletions(config, response)
    IN IF ~result.ok THEN result
       ELSE IF Truthy(result.value) /\ IsArray(Field(result.value, field))
       THEN Resolved(Field(result.value, field).items)
       ELSE Resolved(<<>>)

\* generateSimilarQuestions (263-286)
generateSimilarQuestions(config, response) ==
    Generate(config, response, "similar_questions")

\* generateQAPairsFromDoc (288-311)
generateQAPairsFromDoc(config, response) ==
    Generate(config, response, "qa_pairs")

CallGenerateSimilarQuestions ==
    /\ call.op = "none"
    /\ \E config \in LlmConfigs, response \in Responses :
          call' = [op |-> "generateSimilarQuestions", config |-> config,
                   response |-> response, field |-> "similar_questions",
                   result |-> generateSimilarQuestions(config, response)]
    /\ UNCHANGED <<storeVars, chatVars, genVars>>

CallGenerateQAPairsFromDoc ==
    /\ call.op = "none"
    /\ \E config \in LlmConfigs, response \in Responses :
          call' = [op |-> "generateQAPairsFromDoc", config |-> config,
                   response |-> response, field |-> "qa_pairs",
                   result |-> generateQAPairsFromDoc(config, response)]
    /\ UNCHANGED <<storeVars, chatVars, genVars>>

NextClient ==
    \/ CallGenerateSimilarQuestions
    \/ CallGenerateQAPairsFromDoc

SpecClient == Init /\ [][NextClient]_vars

-----------------------------------------------------------------------------
(* ColdStart.handleStart (part_000 23-54) and                              *)
(* KnowledgeEditor.handleGenerateSimilar (KnowledgeEditor.tsx 69-87): the  *)
(* click, and the continuation once the request has settled.               *)

\* addToast (ToastContext.tsx 16-19)
addToast(list, message, type) ==
    Append(list, [id |-> now, message |-> message, type |-> type])

\* addColdStartItems (KnowledgeBaseContext.tsx 128-134); the position stands
\* for Math.random()
addColdStartItems(list, items) ==
    list \o [i \in 1..Len(items) |->
                [id |-> <<"cs", now, Len(list) + i>>,
                 sourceFileName |-> items[i].sourceFileName,
                 generatedQuestion |-> items[i].generatedQuestion,
                 generatedAnswer |-> items[i].generatedAnswer]]

\* Array.from(new Set(list)): the first occurrence of each element, in order
RECURSIVE Unique(_)
Unique(list) ==
    IF list = <<>> THEN <<>>
    ELSE LET front == Unique(SubSeq(list, 1, Len(list) - 1))
             x == list[Len(list)]
         IN IF x \in Range(front) THEN front ELSE Append(front, x)

\* the replies the endpoint gives to the two buttons: each kind of failure,
\* each single token, and two fenced documents
FencedQaPairs ==
    <<FenceJson, Space, Doc(JObject(Undefined, JArray(<<QaPair>>))), Space, Fence>>
FencedEmptyObject ==
    <<FenceJson, Space, Doc(JObject(Undefined, Undefined)), Fence>>
ButtonResponses ==
    {Reply("rejected", FALSE, FALSE, FALSE, <<>>),
     Reply("response", FALSE, FALSE, FALSE, <<>>),
     Reply("response", TRUE, FALSE, FALSE, <<>>),
     Reply("response", TRUE, TRUE, FALSE, <<>>)}
    \cup {Reply("response", TRUE, TRUE, TRUE, c) :
             c \in ContentsUpTo(1) \cup {FencedQaPairs, FencedEmptyObject}}

\* every stored collection
Stored ==
    [categories |-> categories, knowledgePoints |-> knowledgePoints,
     coldStartItems |-> coldStartItems, chatSessions |-> chatSessions,
     unansweredQuestions |-> unansweredQuestions, robots |-> robots]

NoFileMessage == "please choose a file"
NothingGenerated == "the AI could not generate any pair from this document"
PairsGenerated == "pairs generated from the document"
EnterQuestionFirst == "enter the standard question first"
SimilarGenerated == "similar questions generated"

\* handleStart up to the first await (part_000 23-31)
HandleStart ==
    /\ gen.pending = "none"
    /\ gen.clicks < MaxRequests
    /\ \/ /\ gen' = [gen EXCEPT !.error = [message |-> NoFileMessage],
                                !.clicks = @ + 1]
       \/ \E config \in LlmConfigs, response \in ButtonResponses :
             gen' = [gen EXCEPT !.pending = "handleStart", !.error = Null,
                                !.clicks = @ + 1,
                                !.request = [config |-> config,
                                             response |-> response,
                                             field |-> "qa_pairs",
                                             before |-> Stored]]
    /\ UNCHANGED <<storeVars, chatVars, call, sideVars, categories, coldStartItems,
                   toasts>>

\* handleStart after generateQAPairsFromDoc has settled (part_000 32-53)
HandleStartSettled ==
    /\ gen.pending = "handleStart"
    /\ UNCHANGED <<storeVars, chatVars, call, sideVars, categories>>
    /\ LET qaPairs == generateQAPairsFromDoc(gen.request.config,
                                             gen.request.response)
       IN /\ IF ~qaPairs.ok
             THEN /\ toasts' = addToast(toasts, qaPairs.error.message, "error")
                  /\ UNCHANGED coldStartItems
             ELSE IF Len(qaPairs.value) > 0
             THEN /\ coldStartItems' =
                        addColdStartItems(coldStartItems,
                            [i \in 1..Len(qaPairs.value) |->
                                [sourceFileName |-> "doc",
                                 generatedQuestion |-> qaPairs.value[i].question,
                                 generatedAnswer |-> qaPairs.value[i].answer]])
                  /\ toasts' = addToast(toasts, PairsGenerated, "success")
             ELSE /\ toasts' = addToast(toasts, NothingGenerated, "info")
                  /\ UNCHANGED coldStartItems
          /\ gen' = [gen EXCEPT
                !.pending = "none", !.request = Null,
                !.error = IF ~qaPairs.ok
                          THEN [message |-> qaPairs.error.message]
                          ELSE IF Len(qaPairs.value) > 0 THEN gen.error
                          ELSE [message |-> NothingGenerated],
                !.last = [op |-> "handleStart", request |-> gen.request,
                          result |-> qaPairs, after |-> Stored',
                          shown |-> SubSeq(toasts', Len(toasts) + 1,
                                           Len(toasts'))]]

\* what the standard-question field of the editor holds
EditorQuestions == {<<" ">>, <<"a">>}

\* handleGenerateSimilar up to the await (KnowledgeEditor.tsx 69-76)
HandleGenerateSimilar ==
    /\ gen.pending = "none"
    /\ gen.clicks < MaxRequests
    /\ \E standardQuestion \in EditorQuestions :
          IF trim(standardQuestion) = <<>>
          THEN /\ toasts' = addToast(toasts, EnterQuestionFirst, "info")
               /\ gen' = [gen EXCEPT !.clicks = @ + 1]
          ELSE /\ \E config \in LlmConfigs, response \in ButtonResponses :
                     gen' = [gen EXCEPT !.pending = "handleGenerateSimilar",
                                !.clicks = @ + 1,
                                !.request = [config |-> config,
                                             response |-> response,
                                             field |-> "similar_questions",
                                             before |-> Stored]]
               /\ UNCHANGED toasts
    /\ UNCHANGED <<storeVars, chatVars, call, sideVars, categories, coldStartItems>>

\* handleGenerateSimilar after generateSimilarQuestions has settled
\* (KnowledgeEditor.tsx 76-86)
HandleGenerateSimilarSettled ==
    /\ gen.pending = "handleGenerateSimilar"
    /\ UNCHANGED <<storeVars, chatVars, call, sideVars, categories, coldStartItems>>
    /\ LET newQuestions == generateSimilarQuestions(gen.request.config,
                                                    gen.request.response)
       IN /\ toasts' =
                IF newQuestions.ok
                THEN addToast(toasts, SimilarGenerated, "success")
                ELSE addToast(toasts, newQuestions.error.message, "error")
          /\ gen' = [gen EXCEPT
                !.pending = "none", !.request = Null,
                !.similarQuestions =
                    IF newQuestions.ok
                    THEN Unique(gen.similarQuestions \o newQuestions.value)
                    ELSE gen.similarQuestions,
                !.last = [op |-> "handleGenerateSimilar",
                          request |-> gen.request, result |-> newQuestions,
                          after |-> Stored',
                          shown |-> SubSeq(toasts', Len(toasts) + 1,
                                           Len(toasts'))]]

NextGen ==
    \/ HandleStart
    \/ HandleStartSettled
    \/ HandleGenerateSimilar
    \/ HandleGenerateSimilarSettled
    \/ Tick

SpecGen == Init /\ [][NextGen]_vars

-----------------------------------------------------------------------------
(* chat and testApiConnection (geminiService.ts 134-260), called with the  *)
(* stored configuration.  A streamed body is a sequence of symbols: the    *)
(* prefix of a data line, a line feed, the end marker, white space, a JSON *)
(* chunk, or text that is not JSON; a read returns any non-empty run of    *)
(* the symbols not read yet.                                               *)

DataPrefix == [t |-> "data: "]
LineFeed == [t |-> "line feed"]
DoneMark == [t |-> "[DONE]"]
\* a JSON chunk; hasContent: choices[0].delta.content is there
Chunk(hasContent, content) ==
    [t |-> "chunk", hasContent |-> hasContent, content |-> content]

\* the lines a reply is made of
LineShapes ==
    {<<DataPrefix, Chunk(TRUE, <<"a">>)>>,
     <<DataPrefix, Chunk(TRUE, <<"b">>)>>,
     <<DataPrefix, Chunk(TRUE, <<>>)>>,
     <<DataPrefix, Chunk(FALSE, <<>>)>>,
     <<DataPrefix, Text>>,
     <<DataPrefix, DoneMark>>,
     <<DataPrefix, DoneMark, Space>>,
     <<Chunk(TRUE, <<"a">>)>>,
     <<>>}

\* up to n lines, each ended by a line feed
RECURSIVE LinesUpTo(_)
LinesUpTo(n) ==
    IF n = 0 THEN {<<>>}
    ELSE LinesUpTo(n - 1)
         \cup {Append(l, line) : l \in {m \in LinesUpTo(n - 1) : Len(m) = n - 1},
                                 line \in LineShapes}

RECURSIVE Terminated(_)
Terminated(lines) ==
    IF lines = <<>> THEN <<>>
    ELSE Head(lines) \o <<LineFeed>> \o Terminated(Tail(lines))

\* the bodies: every line ended by a line feed, or the last one left open
Streams ==
    {Terminated(l) : l \in LinesUpTo(MaxLines)}
    \cup {SubSeq(Terminated(l), 1, Len(Terminated(l)) - 1) :
             l \in LinesUpTo(MaxLines) \ {<<>>}}

\* buffer.split('\n'): the runs between line feeds, at least one
RECURSIVE splitLines(_)
splitLines(buffer) ==
    IF \A i \in 1..Len(buffer) : buffer[i] # LineFeed THEN <<buffer>>
    ELSE LET i == CHOOSE k \in 1..Len(buffer) :
                      /\ buffer[k] = LineFeed
                      /\ \A j \in 1..(k - 1) : buffer[j] # LineFeed
         IN <<SubSeq(buffer, 1, i - 1)>>
            \o splitLines(SubSeq(buffer, i + 1, Len(buffer)))

\* a parser that forgets the unfinished line
carryOver_Dropped(lines) == <<>>

\* buffer = lines.pop() || '' (line 228)
carryOver(lines) == lines[Len(lines)]

\* line.substring(6).trim() (line 232)
dataOf(line) == DropSpaceAtEnd(SkipSpace(Tail(line)))

\* one pass of the for loop (230-247) over the lines from position i:
\* the deltas handed to onDelta, and whether the end marker was met
RECURSIVE ProcessLines(_, _, _)
ProcessLines(lines, i, delivered) ==
    IF i > Len(lines) THEN [delivered |-> delivered, finished |-> FALSE]
    ELSE LET line == lines[i]
             parsed == SelectSeq(dataOf(line), LAMBDA k : k # Space)
         IN IF line = <<>> \/ Head(line) # DataPrefix
            THEN ProcessLines(lines, i + 1, delivered)
            ELSE IF dataOf(line) = <<DoneMark>>
            THEN [delivered |-> delivered, finished |-> TRUE]
            ELSE IF /\ Len(parsed) = 1
                    /\ parsed[1].t = "chunk"
                    /\ parsed[1].hasContent
                    /\ parsed[1].content # <<>>
            THEN ProcessLines(lines, i + 1, Append(delivered, parsed[1].content))
            ELSE ProcessLines(lines, i + 1, delivered)

\* the keys of the settings page
ApiKeys == {<<>>, <<"k", "U+00FF">>, <<"k", "U+0100">>, <<"U+5BC6">>}
ChatConfigs == [apiKey : ApiKeys, streamMode : BOOLEAN]

\* setLlmConfig (33-37)
SetLlmConfig ==
    /\ call.op = "none"
    /\ \E config \in ChatConfigs : config # llmConfig /\ llmConfig' = config
    /\ UNCHANGED <<storeVars, chatVars, call, categories, coldStartItems,
                   toasts, gen, knowledgeList, tabs>>

\* what the endpoint may answer to chat: fetch rejects; a status that is
\* not 2xx; a streamed body; a JSON body with or without a content
ChatReplies ==
    {[kind |-> "rejected"], [kind |-> "status"],
     [kind |-> "json", hasContent |-> FALSE, content |-> <<>>],
     [kind |-> "json", hasContent |-> TRUE, content |-> <<>>],
     [kind |-> "json", hasContent |-> TRUE, content |-> <<"a">>]}
    \cup {[kind |-> "stream", stream |-> st] : st \in Streams}

Settled(op, config, result, fetches) ==
    [op |-> op, config |-> config, settled |-> TRUE, result |-> result,
     fetches |-> fetches]

\* chat up to the first read (191-219, 252-255)
ChatStart ==
    /\ call.op = "none"
    /\ \E response \in ChatReplies :
          /\ response.kind = "stream" => llmConfig.streamMode
          /\ response.kind = "json" => ~llmConfig.streamMode
          /\ call' =
                IF ~validateHeaders(llmConfig)
                THEN Settled("chat", llmConfig,
                         Rejected(handleApiError(Err("Error", InvalidKey))), 0)
                ELSE IF response.kind = "rejected"
                THEN Settled("chat", llmConfig,
                         Rejected(handleApiError(
                             Err("TypeError", "Failed to fetch"))), 1)
                ELSE IF response.kind = "status"
                THEN Settled("chat", llmConfig,
                         Rejected(handleApiError(
                             Err("Error", "API request failed with status"))), 1)
                ELSE IF response.kind = "json"
                THEN Settled("chat", llmConfig,
                         Resolved(IF response.hasContent THEN response.content
                                  ELSE <<>>), 1)
                ELSE [op |-> "chat", config |-> llmConfig, settled |-> FALSE,
                      fetches |-> 1, stream |-> response.stream,
                      rest |-> response.stream, buffer |-> <<>>,
                      delivered |-> <<>>, reads |-> 0]
    /\ UNCHANGED <<storeVars, chatVars, genVars>>

\* one turn of the read loop (221-249)
ChatRead ==
    /\ call.op = "chat"
    /\ ~call.settled
    /\ IF call.rest = <<>>
       THEN call' = [call EXCEPT !.settled = TRUE]
       ELSE \E n \in 1..Len(call.rest) :
               LET lines == splitLines(call.buffer \o SubSeq(call.rest, 1, n))
                   pass == ProcessLines(SubSeq(lines, 1, Len(lines) - 1), 1,
                                        call.delivered)
               IN call' = [call EXCEPT
                     !.rest = SubSeq(call.rest, n + 1, Len(call.rest)),
                     !.buffer = carryOver(lines),
                     !.delivered = pass.delivered,
                     !.reads = @ + 1,
                     !.settled = pass.finished]
    /\ UNCHANGED <<storeVars, chatVars, genVars>>

\* callChatCompletions with the stored configuration
RunCallChatCompletions ==
    /\ call.op = "none"
    /\ \E response \in ButtonResponses :
          call' = Settled("callChatCompletions", llmConfig,
                          callChatCompletions(llmConfig, response),
                          IF validateHeaders(llmConfig) THEN 1 ELSE 0)
    /\ UNCHANGED <<storeVars, chatVars, genVars>>

\* what the endpoint may answer to the connection test: fetch rejects; a
\* status that is not 2xx; text that is not JSON; null; an object with or
\* without a choices array
TestReplies ==
    {"rejected", "status", "text", "null", "no choices", "choices"}

ConnectionOk == "API connection succeeded"

\* testApiConnection (134-183)
testApiConnection(config, response) ==
    IF ~validateHeaders(config) THEN Rejected(Err("Error", InvalidKey))
    ELSE IF response = "rejected"
    THEN Rejected(Err("Error", "network request failed (Failed to fetch)"))
    ELSE IF response = "status"
    THEN Rejected(Err("Error", "API request failed, status code"))
    ELSE IF response = "text"
    THEN Rejected(Err("Error", "cannot parse the API response as JSON"))
    ELSE IF response = "null"
    THEN Rejected(Err("TypeError", "Cannot read properties of null"))
    ELSE IF response = "no choices"
    THEN Rejected(Err("Error", "invalid API response format"))
    ELSE Resolved(ConnectionOk)

RunTestApiConnection ==
    /\ call.op = "none"
    /\ \E response \in TestReplies :
          call' = Settled("testApiConnection", llmConfig,
                          testApiConnection(llmConfig, response),
                          IF validateHeaders(llmConfig) THEN 1 ELSE 0)
    /\ UNCHANGED <<storeVars, chatVars, genVars>>

NextApi ==
    \/ SetLlmConfig
    \/ ChatStart
    \/ ChatRead
    \/ RunCallChatCompletions
    \/ RunTestApiConnection

SpecApi == Init /\ [][NextApi]_vars

-----------------------------------------------------------------------------
(* The category commands of the provider (KnowledgeBaseContext.tsx 76-102) *)
(* and KnowledgeList.handleImport (part_000 286-311) over the stored       *)
(* collections.                                                            *)

\* addCategory (76-79); the number of the id is Date.now(), written past
\* the numbers of the demo ids
addCategory(cats, name, parentId, t) ==
    Append(cats, Category(<<"cat", Len(demoCategories) + t>>, name, parentId))

\* updateCategory (81-83)
updateCategory(cats, id, name) ==
    [i \in 1..Len(cats) |->
        IF cats[i].id = id THEN [cats[i] EXCEPT !.name = name] ELSE cats[i]]

\* frames the call stack holds before the engine throws RangeError: more
\* than any descent through distinct categories of the model needs
StackLimit == 2 * MaxCommands + Len(demoCategories) + 1

\* getSubCats (87-94) on the call stack: the children of parentId from
\* position i on, depth frames deep; overflow when the stack is exhausted
RECURSIVE getSubCatsOnStack(_, _, _, _)
getSubCatsOnStack(allCategories, parentId, i, depth) ==
    IF depth > StackLimit THEN [ids |-> {}, overflow |-> TRUE]
    ELSE IF i > Len(allCategories) THEN [ids |-> {}, overflow |-> FALSE]
    ELSE IF allCategories[i].parentId # parentId
    THEN getSubCatsOnStack(allCategories, parentId, i + 1, depth)
    ELSE LET below == getSubCatsOnStack(allCategories, allCategories[i].id,
                                        1, depth + 1)
             after == getSubCatsOnStack(allCategories, parentId, i + 1, depth)
         IN IF below.overflow THEN below
            ELSE [ids |-> {allCategories[i].id} \cup below.ids \cup after.ids,
                  overflow |-> after.overflow]

\* handleSaveCategory adding (part_000 922-923): under a category of the
\* collection or at top level
AddCategory ==
    /\ knowledgeList.commands < MaxCommands
    /\ \E parentId \in {NoParent} \cup {c.id : c \in Range(categories)} :
          categories' = addCategory(categories, "name", parentId, now)
    /\ knowledgeList' = [knowledgeList EXCEPT !.commands = @ + 1]
    /\ UNCHANGED <<storeVars, chatVars, call, coldStartItems, toasts, gen,
                   llmConfig, tabs>>

\* handleSaveCategory editing (part_000 919-920)
UpdateCategory ==
    /\ knowledgeList.commands < MaxCommands
    /\ \E c \in Range(categories) :
          /\ c.name # "renamed"
          /\ categories' = updateCategory(categories, c.id, "renamed")
    /\ knowledgeList' = [knowledgeList EXCEPT !.commands = @ + 1]
    /\ UNCHANGED <<storeVars, chatVars, call, coldStartItems, toasts, gen,
                   llmConfig, tabs>>

\* deleteCategory(id) (85-102): the collections are written when getSubCats
\* returns; call keeps how the last one ended
DeleteCategory ==
    /\ knowledgeList.commands < MaxCommands
    /\ \E c \in Range(categories) :
          LET descent == getSubCatsOnStack(categories, c.id, 1, 1)
          IN IF descent.overflow
             THEN /\ call' = [op |-> "deleteCategory", id |-> c.id,
                              returned |-> FALSE]
                  /\ UNCHANGED <<categories, knowledgePoints>>
             ELSE /\ call' = [op |-> "deleteCategory", id |-> c.id,
                              returned |-> TRUE]
                  /\ categories' =
                        deleteCategory(categories, knowledgePoints, c.id).categories
                  /\ knowledgePoints' =
                        deleteCategory(categories, knowledgePoints,
                                       c.id).knowledgePoints
    /\ knowledgeList' = [knowledgeList EXCEPT !.commands = @ + 1]
    /\ UNCHANGED <<robots, chatSessions, unansweredQuestions, chatVars,
                   coldStartItems, toasts, gen, llmConfig, tabs>>

ImportedKp(n, cat) ==
    KP(<<"kp", n>>, cat, <<"b">>, <<>>, <<"x", n>>, <<>>, "published")

\* the files given to the import (their ids are numbers no clock of the
\* model gives): text that is not JSON; JSON without the
\* two arrays; an export of the demo data with one more category and point;
\* two categories that name each other as parent; a category that names
\* itself as parent
ImportFiles ==
    {[json |-> FALSE, hasArrays |-> FALSE, categories |-> <<>>,
      knowledgePoints |-> <<>>],
     [json |-> TRUE, hasArrays |-> FALSE, categories |-> <<>>,
      knowledgePoints |-> <<>>],
     [json |-> TRUE, hasArrays |-> TRUE,
      categories |-> Append(demoCategories,
                            Category(<<"cat", 91>>, "name", <<"cat", 1>>)),
      knowledgePoints |-> Append(demoKPs, ImportedKp(91, <<"cat", 91>>))],
     [json |-> TRUE, hasArrays |-> TRUE,
      categories |-> <<Category(<<"cat", 92>>, "name", <<"cat", 93>>),
                       Category(<<"cat", 93>>, "name", <<"cat", 92>>)>>,
      knowledgePoints |-> <<>>],
     [json |-> TRUE, hasArrays |-> TRUE,
      categories |-> <<Category(<<"cat", 94>>, "name", <<"cat", 94>>)>>,
      knowledgePoints |-> <<>>]}

\* records of the file whose id the collection does not have (297-301)
NewRecords(existing, incoming) ==
    SelectSeq(incoming,
              LAMBDA r : \A i \in 1..Len(existing) : existing[i].id # r.id)

ImportFailed == "import failed, check the file format"
ImportDone == "import succeeded"

\* handleImport (286-289, 309): the file is chosen and the read starts;
\* onload closes over the collections of this render
HandleImport ==
    /\ knowledgeList.reader = Null
    /\ knowledgeList.commands < MaxCommands
    /\ \E file \in ImportFiles :
          knowledgeList' =
              [knowledgeList EXCEPT
                  !.commands = @ + 1,
                  !.reader = [file |-> file, categories |-> categories,
                              knowledgePoints |-> knowledgePoints]]
    /\ UNCHANGED <<storeVars, chatVars, call, categories, coldStartItems,
                   toasts, gen, llmConfig, tabs>>

\* reader.onload (290-308)
ImportLoaded ==
    /\ knowledgeList.reader # Null
    /\ LET r == knowledgeList.reader
       IN /\ IF ~r.file.json
             THEN /\ toasts' = addToast(toasts, ImportFailed, "error")
                  /\ UNCHANGED <<categories, knowledgePoints>>
             ELSE IF ~r.file.hasArrays
             THEN UNCHANGED <<toasts, categories, knowledgePoints>>
             ELSE /\ categories' =
                        r.categories
                        \o NewRecords(r.categories, r.file.categories)
                  /\ knowledgePoints' =
                        r.knowledgePoints
                        \o NewRecords(r.knowledgePoints, r.file.knowledgePoints)
                  /\ toasts' = addToast(toasts, ImportDone, "success")
          /\ knowledgeList' =
                [knowledgeList EXCEPT
                    !.reader = Null,
                    !.lastImport =
                        [file |-> r.file,
                         before |-> [categories |-> categories,
                                     knowledgePoints |-> knowledgePoints],
                         after |-> [categories |-> categories',
                                    knowledgePoints |-> knowledgePoints']]]
    /\ UNCHANGED <<robots, chatSessions, unansweredQuestions, chatVars, call,
                   coldStartItems, gen, llmConfig, tabs>>

NextCats ==
    \/ AddCategory
    \/ UpdateCategory
    \/ DeleteCategory
    \/ HandleImport
    \/ ImportLoaded
    \/ Tick

SpecCats == Init /\ [][NextCats]_vars

-----------------------------------------------------------------------------
(* The unanswered-questions view (part_000 544-570) next to the chat view. *)

\* deleteUnansweredQuestions (KnowledgeBaseContext.tsx 164-167)
deleteUnansweredQuestions(questions, ids) ==
    SelectSeq(questions, LAMBDA q : q.id \notin ids)

AddedToSimilar == "added to similar questions"

\* handleOpenAddToSimilar with one row or the selected rows, the choice of a
\* point in the select, then handleConfirmAddToSimilar (part_000 544-570);
\* the changed collection re-runs the effect of the chat view
HandleConfirmAddToSimilar ==
    /\ knowledgePoints # <<>>
    /\ \E chosen \in SUBSET Range(unansweredQuestions) \ {{}},
          targetKp \in Range(knowledgePoints) :
          LET questionsToProcess ==
                  SelectSeq(unansweredQuestions, LAMBDA q : q \in chosen)
              newSimilarQuestions ==
                  [i \in 1..Len(questionsToProcess) |->
                      questionsToProcess[i].question]
              updatedSimilar ==
                  Unique(targetKp.similarQuestions \o newSimilarQuestions)
              idsToDelete == {q.id : q \in chosen}
          IN /\ knowledgePoints' =
                    updateKnowledgePoint(knowledgePoints, targetKp.id,
                                         [similarQuestions |-> updatedSimilar])
             /\ unansweredQuestions' =
                    deleteUnansweredQuestions(unansweredQuestions, idsToDelete)
             /\ toasts' = addToast(toasts, AddedToSimilar, "success")
             /\ call' = [op |-> "handleConfirmAddToSimilar",
                         targetKnowledgePointId |-> targetKp.id,
                         added |-> Range(newSimilarQuestions)]
    /\ RunEffect(robots, knowledgePoints', selectedRobotId, chatSessions)
    /\ UNCHANGED <<robots, selectedRobotId, timers, now, turnLog, categories,
                   coldStartItems, gen, sideVars>>

NextReview ==
    \/ HandleSend
    \/ HandleSuggestionClick
    \/ TimerFire
    \/ SelectRobot
    \/ AddKnowledgePoint
    \/ DeleteKnowledgePoint
    \/ DeleteRobot
    \/ HandleConfirmAddToSimilar
    \/ Tick

SpecReview == Init /\ [][NextReview]_vars

-----------------------------------------------------------------------------
(* useLocalStorage in two tabs (useLocalStorage.ts 17-45).  The stored     *)
(* value is a list; a write of one tab reaches the other as a storage      *)
(* event, delivered later and in the order of the writes.                  *)

\* what a caller passes to setValue: an updater that appends an item, or a
\* value
SetStateActions(item) ==
    {[updater |-> TRUE, item |-> item, value |-> <<>>],
     [updater |-> FALSE, item |-> item, value |-> <<>>],
     [updater |-> FALSE, item |-> item, value |-> <<item>>]}

\* value instanceof Function ? value(currentStoredValue) : value (line 20)
valueToStore(action, currentStoredValue) ==
    IF action.updater THEN Append(currentStoredValue, action.item)
    ELSE action.value

\* setValue in tab t (17-29); the browser queues a storage event for the
\* other tab when setItem changes the stored string
TabSetValue ==
    /\ tabs.writes < MaxWrites
    /\ \E t \in TabIds, action \in SetStateActions(tabs.writes + 1) :
          LET v == valueToStore(action, tabs.memory[t])
          IN tabs' = [memory |-> [tabs.memory EXCEPT ![t] = v],
                      storage |-> v,
                      events |-> [o \in TabIds |->
                                     IF o # t /\ v # tabs.storage
                                     THEN Append(tabs.events[o], v)
                                     ELSE tabs.events[o]],
                      writes |-> tabs.writes + 1]
    /\ UNCHANGED <<storeVars, chatVars, call, categories, coldStartItems,
                   toasts, gen, llmConfig, knowledgeList>>

\* handleStorageChange in tab t (32-40): the state becomes e.newValue
TabStorageEvent ==
    /\ \E t \in TabIds :
          /\ tabs.events[t] # <<>>
          /\ tabs' = [tabs EXCEPT
                         !.memory[t] = Head(tabs.events[t]),
                         !.events[t] = Tail(tabs.events[t])]
    /\ UNCHANGED <<storeVars, chatVars, call, categories, coldStartItems,
                   toasts, gen, llmConfig, knowledgeList>>

NextTabs ==
    \/ TabSetValue
    \/ TabStorageEvent

SpecTabs == Init /\ [][NextTabs]_vars

-----------------------------------------------------------------------------
(* Claims about the Matcher, checked under SpecMatch.                      *)

\* the words of s: the maximal runs of characters that are not white space
Words(s) ==
    {SubSeq(s, i, j) : i \in 1..Len(s), j \in 1..Len(s)} \cap
    {w \in StringsUpTo(Letters, Len(s)) \ {<<>>} :
        \E i \in 1..Len(s) :
            /\ i + Len(w) - 1 <= Len(s)
            /\ SubSeq(s, i, i + Len(w) - 1) = w
            /\ (i = 1 \/ s[i - 1] \in Whitespace)
            /\ (i + Len(w) - 1 = Len(s) \/ s[i + Len(w)] \in Whitespace)}

\* C1: calculateScore(q, c) is |W(q) \cap W(c)| / |W(c)|, with W(s) the set of
\* white-space separated words of s, and is 0 when c has no word.
C1_ScoreIsOverlapOverCandidateWords ==
    call.op = "calculateScore" =>
        LET wq == Words(call.query)
            wc == Words(call.question)
        IN IF wc = {} THEN ScoreEQ(call.result, Zero)
           ELSE ScoreEQ(call.result,
                        Score(Cardinality(wq \cap wc), Cardinality(wc)))

\* the strings of a knowledge point the query is compared with
ComparisonStrings(kp) == {kp.standardQuestion} \cup Range(kp.similarQuestions)

\* the scores of all comparison strings of all published points
ScoresOf(query, kps) ==
    {calculateScore(toLowerCase(query), toLowerCase(t)) :
        t \in UNION {ComparisonStrings(kp) :
                        kp \in {k \in Range(kps) : k.status = "published"}}}

IsHighest(m, scores) == m \in scores /\ \A x \in scores : ~ScoreGT(x, m)

AllWhitespace(s) == \A i \in 1..Len(s) : s[i] \in Whitespace

\* C2: findBestMatch returns a point only when the highest score over all
\* comparison strings of the published points is strictly above 0.5, and the
\* point returned then attains that highest score; a highest score of 0.5 or
\* less gives null, and a query with a word and a highest score above 0.5
\* gives a point.
C2_ThresholdIsStrict ==
    call.op = "findBestMatch" =>
        LET scores == ScoresOf(call.query, call.kps)
            r == call.result
        IN /\ r # Null =>
                 /\ \E i \in 1..Len(call.kps) : call.kps[i] = r
                 /\ \E m \in scores :
                       /\ IsHighest(m, scores)
                       /\ ScoreGT(m, Half)
                       /\ \E t \in ComparisonStrings(r) :
                             ScoreEQ(calculateScore(toLowerCase(call.query),
                                                    toLowerCase(t)), m)
           /\ (\A m \in scores : ~ScoreGT(m, Half)) => r = Null
           /\ (~AllWhitespace(call.query) /\ \E m \in scores : ScoreGT(m, Half))
                 => r # Null

\* the highest score is exactly 0.5 and nothing is returned
C2_Witness ==
    /\ call.op = "findBestMatch"
    /\ \E m \in ScoresOf(call.query, call.kps) :
          IsHighest(m, ScoresOf(call.query, call.kps)) /\ ScoreEQ(m, Half)
    /\ call.result = Null

\* C4: a query that is empty or all white space gives null, and no
\* candidate is scored.
C4_BlankQueryIsNull ==
    (call.op = "findBestMatch" /\ AllWhitespace(call.query)) =>
        call.result = Null /\ call.scored = 0

\* a white-space query against a collection with a published point
C4_Witness ==
    /\ call.op = "findBestMatch"
    /\ call.query = <<" ", "\t">>
    /\ \E i \in 1..Len(call.kps) : call.kps[i].status = "published"
    /\ call.result = Null


-----------------------------------------------------------------------------
(* Claims about the Session Engine, checked under Spec.                    *)

IsPrefix(a, b) == Len(a) <= Len(b) /\ SubSeq(b, 1, Len(a)) = a
Last(q) == q[Len(q)]

\* a step of the delayed callback, and a step that accepts a query
FireStep == timers # <<>> /\ timers' = Tail(timers)
SubmitStep == Len(turnLog') = Len(turnLog) + 1

\* the bot messages of a log that answer a turn (not the welcome message)
Replies(messages) ==
    {m \in Range(messages) : m.sender = "bot" /\ m.id # <<"bot-init", 0>>}

\* C3: whatever edits and turns came before, findBestMatch returns null or a
\* published point of the collection, and the text of every reply in every
\* session is the fallback text or the answer of such a returned point.
C3_OnlyPublishedPointsAnswer ==
    /\ \A t \in 1..Len(turnLog) :
          turnLog[t].match # Null =>
              /\ turnLog[t].match.status = "published"
              /\ \E i \in 1..Len(turnLog[t].kps) :
                    turnLog[t].kps[i] = turnLog[t].match
    /\ \A s \in Range(chatSessions) \cup
                (IF currentSession = Null THEN {} ELSE {currentSession}) :
          \A m \in Replies(s.messages) :
              \/ m.text = FallbackText
              \/ \E t \in 1..Len(turnLog) :
                    /\ turnLog[t].match # Null
                    /\ turnLog[t].match.status = "published"
                    /\ m.text = turnLog[t].match.answer

\* after an edit, a turn whose query is the standard question of a point
\* that is not published has been answered
C3_Witness ==
    \E t \in 1..Len(turnLog) :
        /\ turnLog[t].fired
        /\ turnLog[t].targetNo # 0
        /\ turnLog[t].kps # demoKPs
        /\ \E i \in 1..Len(turnLog[t].kps) :
              /\ turnLog[t].kps[i].status # "published"
              /\ toLowerCase(turnLog[t].kps[i].standardQuestion)
                    = toLowerCase(turnLog[t].query)

\* the related questions the claim describes: the ids, in order, that refer
\* to a point of the collection that is published, each replaced by its point
ExpectedRelated(ids, kps) ==
    LET Refers(id, i) ==
            /\ kps[i].id = id
            /\ \A j \in 1..(i - 1) : kps[j].id # id
        kept == SelectSeq(ids, LAMBDA id :
                    \E i \in 1..Len(kps) :
                        Refers(id, i) /\ kps[i].status = "published")
    IN [n \in 1..Len(kept) |->
           kps[CHOOSE i \in 1..Len(kps) : Refers(kept[n], i)]]

C6_MissIsRecordedOnce ==
    [][/\ FireStep =>
            LET e == turnLog[Head(timers).turn]
                reply == turnLog'[Head(timers).turn].reply
            IN IF e.match = Null
               THEN /\ Len(unansweredQuestions') = Len(unansweredQuestions) + 1
                    /\ IsPrefix(unansweredQuestions, unansweredQuestions')
                    /\ Last(unansweredQuestions').question = e.query
                    /\ Last(unansweredQuestions').sessionId = e.session.id
                    /\ Last(unansweredQuestions').userId = e.session.userId
                    /\ Last(unansweredQuestions').robotId = e.session.robotId
                    /\ reply.text = FallbackText
                    /\ "relatedQuestions" \notin DOMAIN reply
                    /\ currentSession # Null =>
                          Last(currentSession'.messages) = reply
               ELSE unansweredQuestions' = unansweredQuestions
       /\ ~FireStep => unansweredQuestions' = unansweredQuestions]_vars

\* a turn without a match was answered in a session that is not the one
\* that received it, and its query is recorded
C6_Witness ==
    \E t \in 1..Len(turnLog) :
        /\ turnLog[t].fired
        /\ turnLog[t].match = Null
        /\ turnLog[t].targetNo # turnLog[t].sessionNo
        /\ \E k \in 1..Len(unansweredQuestions) :
              /\ unansweredQuestions[k].question = turnLog[t].query
              /\ unansweredQuestions[k].sessionId = turnLog[t].session.id

\* C7: a submit is accepted only when no turn is pending, so after the
\* welcome message the log alternates user, bot, user, bot.
C7_TurnsOneAtATime ==
    /\ Len(timers) <= 1
    /\ currentSession # Null =>
          \A i \in 2..Len(currentSession.messages) :
              currentSession.messages[i].sender
                  = (IF i % 2 = 0 THEN "user" ELSE "bot")

\* C8: the log of the session in the chat view only grows at its end; a
\* query's user message is appended in the step that accepts the query, and
\* when the callback of a turn runs in the session that received the turn,
\* the user message is already in the log and the bot message goes after it.
C8_LogIsAppendOnly ==
    [][/\ (currentSession # Null /\ currentSession' # Null
             /\ Len(chatSessions') = Len(chatSessions)) =>
             /\ currentSession'.id = currentSession.id
             /\ currentSession'.userId = currentSession.userId
             /\ IsPrefix(currentSession.messages, currentSession'.messages)
       /\ SubmitStep =>
             /\ Len(currentSession'.messages)
                   = Len(currentSession.messages) + 1
             /\ IsPrefix(currentSession.messages, currentSession'.messages)
             /\ Last(currentSession'.messages).sender = "user"
             /\ Last(currentSession'.messages).text = Last(turnLog').query
       /\ (FireStep /\ currentSession # Null
             /\ turnLog[Head(timers).turn].sessionNo = Len(chatSessions)) =>
             LET e == turnLog[Head(timers).turn]
             IN /\ e.userPos <= Len(currentSession.messages)
                /\ currentSession.messages[e.userPos].sender = "user"
                /\ currentSession.messages[e.userPos].text = e.query
                /\ Len(currentSession'.messages)
                      = Len(currentSession.messages) + 1
                /\ Last(currentSession'.messages).sender = "bot"
                /\ currentSession'.messages[e.userPos]
                      = currentSession.messages[e.userPos]]_vars

\* two turns were answered in the session that received them
C8_Witness ==
    /\ currentSession # Null
    /\ Len(turnLog) = 2
    /\ \A t \in 1..2 :
          /\ turnLog[t].fired
          /\ turnLog[t].targetNo = Len(chatSessions)
          /\ turnLog[t].sessionNo = Len(chatSessions)
          /\ turnLog[t].userPos < turnLog[t].botPos
          /\ currentSession.messages[turnLog[t].botPos] = turnLog[t].reply

\* C9: the bot message of a turn is appended to the session that received
\* the turn's user message, also when the robot or the collection changed
\* before the callback ran.
C9_ReplyLandsInItsSession ==
    \A t \in 1..Len(turnLog) :
        turnLog[t].fired => turnLog[t].targetNo = turnLog[t].sessionNo

\* C10: after a completed turn the session stored under the session's id
\* holds the turn's user and bot messages and was written once for the turn;
\* the stored log is a prefix of the log in the chat view, and equal to it
\* when no turn is pending.
C10_StoredSessionIsFullLog ==
    /\ \A t \in 1..Len(turnLog) :
          turnLog[t].fired =>
              LET e == turnLog[t]
                  s == getChatSessionById(chatSessions, e.session.id)
              IN /\ e.writes = 1
                 /\ s # Null
                 /\ e.userPos <= Len(s.messages)
                 /\ s.messages[e.userPos] = e.userMessage
                 /\ \E k \in (e.userPos + 1)..Len(s.messages) :
                       s.messages[k] = e.reply
    /\ currentSession # Null =>
          LET s == getChatSessionById(chatSessions, currentSession.id)
          IN /\ s # Null
             /\ IsPrefix(s.messages, currentSession.messages)
             /\ timers = <<>> => s = currentSession


\* C11: a query that trims to the empty string is never accepted, whichever
\* entry point submits it: no turn, no user message of any session and no
\* unanswered question carries such a query.
C11_BlankSubmitIsNoOp ==
    /\ \A t \in 1..Len(turnLog) : trim(turnLog[t].query) # <<>>
    /\ \A s \in Range(chatSessions) \cup
                (IF currentSession = Null THEN {} ELSE {currentSession}) :
          \A m \in Range(s.messages) :
              m.sender = "user" => trim(m.text) # <<>>
    /\ \A k \in 1..Len(unansweredQuestions) :
          trim(unansweredQuestions[k].question) # <<>>


\* the positions of the published points with a comparison string of score m
Attaining(query, kps, m) ==
    {i \in 1..Len(kps) :
        /\ kps[i].status = "published"
        /\ \E t \in ComparisonStrings(kps[i]) :
              ScoreEQ(calculateScore(toLowerCase(query), toLowerCase(t)), m)}

\* C12: the point findBestMatch returns is the first point, in collection
\* order, with a comparison string of the highest score; a later point with an
\* equal score never replaces it.
C12_TieGoesToFirstSeen ==
    (call.op = "findBestMatch" /\ call.result # Null) =>
        \E m \in ScoresOf(call.query, call.kps) :
            /\ IsHighest(m, ScoresOf(call.query, call.kps))
            /\ \E i \in Attaining(call.query, call.kps, m) :
                  /\ \A j \in Attaining(call.query, call.kps, m) : i <= j
                  /\ call.result = call.kps[i]

\* two different points attain the highest score and the first is returned
C12_Witness ==
    /\ call.op = "findBestMatch"
    /\ call.result # Null
    /\ \E m \in ScoresOf(call.query, call.kps) :
          /\ IsHighest(m, ScoresOf(call.query, call.kps))
          /\ \E i, j \in Attaining(call.query, call.kps, m) :
                i < j /\ call.result = call.kps[i]


\* the standard questions of the first n points of a collection
FirstQuestions(kps, n) == [i \in 1..n |-> kps[i].standardQuestion]

\* C13 as stated: with at least 3 points the suggestions of the initial bot
\* message are the standard questions of the first 3, with fewer than 3 points
\* (0, 1 or 2) they are the built-in pair.
C13_PairBelowThreePoints ==
    call.op = "newSession" =>
        call.result.messages[1].suggestions =
            (IF Len(call.kps) >= 3 THEN FirstQuestions(call.kps, 3)
             ELSE DefaultSuggestions)

\* C13 as amended: the suggestions of the initial bot message are the standard
\* questions of the first 3 points, or of all points when there are 1 or 2;
\* only with no point at all are they the built-in pair.
C13_PairOnlyWithoutPoints ==
    call.op = "newSession" =>
        /\ Len(call.result.messages) = 1
        /\ call.result.messages[1].sender = "bot"
        /\ call.result.messages[1].suggestions =
              (IF Len(call.kps) >= 3 THEN FirstQuestions(call.kps, 3)
               ELSE IF Len(call.kps) >= 1
                    THEN FirstQuestions(call.kps, Len(call.kps))
               ELSE DefaultSuggestions)

\* a session seeded from two points shows their two questions
C13_Witness ==
    /\ call.op = "newSession"
    /\ Len(call.kps) = 2
    /\ call.result.messages[1].suggestions
          = <<call.kps[1].standardQuestion, call.kps[2].standardQuestion>>


-----------------------------------------------------------------------------
(* Claims about the silent-questions view, checked under SpecSilent.       *)

\* session ses of the view's call passes the robot filter
PassesFilter(ses) ==
    call.robotFilter = NoFilter \/ ses.robotId = call.robotFilter

\* session ses holds a message from the bot whose text is the answer of kp
Serves(ses, kp) ==
    \E m \in Range(ses.messages) : m.sender = "bot" /\ m.text = kp.answer

\* kp passes the search box of the view's call
MatchesSearch(kp) ==
    call.searchTerm = <<>>
        \/ includes(toLowerCase(kp.standardQuestion),
                    toLowerCase(call.searchTerm))

\* C14: with an empty search term the list is exactly the published points
\* whose answer is the text of no bot message in a session inside the window
\* (started later than today - silenceDays) that passes the robot filter.
C14_StaleSetIsUnservedPublished ==
    (call.op = "silentKnowledgePoints" /\ call.searchTerm = <<>>) =>
        Range(call.result) =
            {k \in Range(call.kps) :
                /\ k.status = "published"
                /\ ~\E ses \in Range(call.sessions) :
                      /\ ses.startTime > call.today - call.silenceDays
                      /\ PassesFilter(ses)
                      /\ Serves(ses, k)}

\* a point stays in the list although a user message inside the window has
\* its answer as text and a session of another robot served it
C14_Witness ==
    /\ call.op = "silentKnowledgePoints"
    /\ call.searchTerm = <<>>
    /\ call.robotFilter # NoFilter
    /\ call.kps[1] \in Range(call.result)
    /\ call.kps[2].status # "published"
    /\ \E ses \in Range(call.sessions) :
          /\ ses.startTime > call.today - call.silenceDays
          /\ ses.robotId = call.robotFilter
          /\ \E m \in Range(ses.messages) :
                m.sender = "user" /\ m.text = call.kps[1].answer
    /\ \E ses \in Range(call.sessions) :
          /\ ses.startTime > call.today - call.silenceDays
          /\ ses.robotId # call.robotFilter
          /\ Serves(ses, call.kps[1])

\* C15 as stated: a session is inside the window exactly when
\* today - silenceDays <= startTime <= today; a session inside the window
\* marks the answers it served as used, a session outside does not.
C15_WindowIsClosedInterval ==
    call.op = "silentKnowledgePoints" =>
        \A k \in {x \in Range(call.kps) :
                     x.status = "published" /\ MatchesSearch(x)} :
            k \in Range(call.result) <=>
                ~\E ses \in Range(call.sessions) :
                    /\ call.today - call.silenceDays <= ses.startTime
                    /\ ses.startTime <= call.today
                    /\ PassesFilter(ses)
                    /\ Serves(ses, k)

\* C15 as amended: a session is inside the window exactly when its startTime
\* is later than today - silenceDays; a session started exactly silenceDays
\* ago is outside, and a session started after today is inside.
C15_WindowIsLaterThanThreshold ==
    call.op = "silentKnowledgePoints" =>
        \A k \in {x \in Range(call.kps) :
                     x.status = "published" /\ MatchesSearch(x)} :
            \A ses \in {x \in Range(call.sessions) :
                           PassesFilter(x) /\ Serves(x, k)} :
                /\ ses.startTime > call.today - call.silenceDays
                      => k \notin Range(call.result)
                /\ (/\ ses.startTime <= call.today - call.silenceDays
                    /\ \A other \in Range(call.sessions) :
                          (PassesFilter(other) /\ Serves(other, k))
                              => other.startTime = ses.startTime)
                      => k \in Range(call.result)

\* a point served only in sessions started exactly silenceDays ago is listed
C15_Witness ==
    /\ call.op = "silentKnowledgePoints"
    /\ call.silenceDays > 0
    /\ call.kps[1] \in Range(call.result)
    /\ \E ses \in Range(call.sessions) :
          /\ PassesFilter(ses)
          /\ Serves(ses, call.kps[1])
          /\ ses.startTime = call.today - call.silenceDays

\* C16: when the window changes and nothing else does, a longer window lists
\* a subset of what the shorter one listed; a point served only in sessions
\* started d days ago is not listed under a window longer than d days and is
\* listed under a window shorter than d days.
C16_StaleSetShrinksWithWindow ==
    call.op = "silentKnowledgePoints" =>
        /\ call.previous # Null =>
              /\ call.previous.silenceDays <= call.silenceDays
                    => Range(call.result) \subseteq Range(call.previous.result)
              /\ call.silenceDays <= call.previous.silenceDays
                    => Range(call.previous.result) \subseteq Range(call.result)
        /\ \A k \in {x \in Range(call.kps) :
                        x.status = "published" /\ MatchesSearch(x)} :
              \A d \in 0..MaxDays :
                  (/\ \E ses \in Range(call.sessions) :
                         PassesFilter(ses) /\ Serves(ses, k)
                   /\ \A ses \in Range(call.sessions) :
                         (PassesFilter(ses) /\ Serves(ses, k))
                             => ses.startTime = call.today - d)
                    => /\ call.silenceDays > d => k \notin Range(call.result)
                       /\ call.silenceDays < d => k \in Range(call.result)

\* the window was made longer and a point listed before is no longer listed
C16_Witness ==
    /\ call.op = "silentKnowledgePoints"
    /\ call.previous # Null
    /\ call.previous.silenceDays < call.silenceDays
    /\ Range(call.result) # Range(call.previous.result)
    /\ call.kps[1] \in Range(call.previous.result)
    /\ call.kps[1] \notin Range(call.result)


-----------------------------------------------------------------------------
(* Claims about the store commands, checked under SpecStore.               *)

\* the ids reachable from the ids S by parentId links downward, in n rounds
RECURSIVE Descend(_, _, _)
Descend(S, cats, n) ==
    IF n = 0 THEN S
    ELSE Descend(S \cup {c.id : c \in {x \in Range(cats) : x.parentId \in S}},
                 cats, n - 1)

\* C17: deleteCategory(C) removes C and every category below it, and the
\* knowledge points of the removed categories; every other category and
\* knowledge point stays, unchanged and in the same order.
C17_DeleteCategoryCascades ==
    call.op = "deleteCategory" =>
        LET removed == Descend({call.id}, call.categories, Len(call.categories))
        IN /\ call.result.categories =
                 SelectSeq(call.categories, LAMBDA c : c.id \notin removed)
           /\ call.result.knowledgePoints =
                 SelectSeq(call.knowledgePoints,
                           LAMBDA kp : kp.categoryId \notin removed)

\* a category with a grandchild is deleted; the knowledge point of the
\* grandchild goes and the one of an unrelated category stays
C17_Witness ==
    /\ call.op = "deleteCategory"
    /\ Len(call.knowledgePoints) = 2
    /\ call.result.knowledgePoints = <<call.knowledgePoints[2]>>
    /\ Len(call.result.categories) >= 1
    /\ \E c, g \in Range(call.categories) :
          /\ c.parentId = call.id
          /\ g.parentId = c.id
          /\ call.knowledgePoints[1].categoryId = g.id
    /\ \E c \in Range(call.result.categories) :
          call.knowledgePoints[2].categoryId = c.id

-----------------------------------------------------------------------------
(* Claims about ids, checked under Spec.                                   *)

\* no two records of the list have the same id
DistinctIds(list) ==
    \A i, j \in 1..Len(list) : i # j => list[i].id # list[j].id

\* C18: within categories, knowledge points, unanswered questions, chat
\* sessions and the messages of one session, no two records share an id,
\* however close in time the operations are.
C18_IdsAreUnique ==
    /\ DistinctIds(categories)
    /\ DistinctIds(knowledgePoints)
    /\ DistinctIds(unansweredQuestions)
    /\ DistinctIds(chatSessions)
    /\ \A i \in 1..Len(chatSessions) : DistinctIds(chatSessions[i].messages)
    /\ currentSession # Null => DistinctIds(currentSession.messages)

-----------------------------------------------------------------------------
(* Claims about the generation client, checked under SpecClient.           *)

\* the reply came with a 2xx status and a JSON body, and lacks the expected
\* structure: no choices[0].message.content, a content that is not JSON
\* once the fence is stripped, or JSON without the expected array
Malformed(response, field) ==
    /\ response.kind = "response" /\ response.ok /\ response.json
    /\ \/ ~response.hasContent
       \/ response.content = <<>>
       \/ ~JSONparse(cleanedContent(response.content)).ok
       \/ LET value == JSONparse(cleanedContent(response.content)).value
          IN ~(value.type = "object" /\ value[field].type = "array")

\* C19: when the reply lacks the expected structure, generateSimilarQuestions
\* and generateQAPairsFromDoc report an error; they never return a default
\* (empty) result.
C19_MalformedReplyIsAnError ==
    (call.op \in {"generateSimilarQuestions", "generateQAPairsFromDoc"}
     /\ Malformed(call.response, call.field))
        => ~call.result.ok

-----------------------------------------------------------------------------
(* Claims about the generation buttons, checked under SpecGen.             *)

\* the generation of the request failed: validation of the headers,
\* transport, or a reply without the expected structure
GenerationFailed(request) ==
    \/ ~validateHeaders(request.config)
    \/ request.response.kind = "rejected"
    \/ ~request.response.ok
    \/ ~request.response.json
    \/ Malformed(request.response, request.field)

\* C20: when the generation fails, every stored collection after the
\* operation equals its value before it, and an error notification that
\* carries the error's message is shown.
C20_FailureWritesNothingAndNotifies ==
    (gen.last # Null /\ GenerationFailed(gen.last.request)) =>
        /\ gen.last.after = gen.last.request.before
        /\ ~gen.last.result.ok
        /\ Len(gen.last.shown) = 1
        /\ gen.last.shown[1].type = "error"
        /\ gen.last.shown[1].message = gen.last.result.error.message

-----------------------------------------------------------------------------
(* Claims about the calls of the endpoint, checked under SpecApi.          *)

\* the key has a character outside U+0000..U+00FF
HasNonLatin1(config) ==
    \E i \in 1..Len(config.apiKey) : config.apiKey[i] \in NonLatin1

\* C21: with an API key that has a character outside U+0000..U+00FF,
\* callChatCompletions, chat and testApiConnection each fail with the
\* validation error before any HTTP request is sent, and leave the stored
\* configuration and every stored collection unchanged.
C21_InvalidKeyFailsBeforeAnyRequest ==
    [][(call.op = "none" /\ call'.op # "none" /\ HasNonLatin1(llmConfig)) =>
          /\ call'.op \in {"callChatCompletions", "chat", "testApiConnection"}
          /\ call'.settled
          /\ call'.result = Rejected(Err("Error", InvalidKey))
          /\ call'.fetches = 0
          /\ llmConfig' = llmConfig
          /\ Stored' = Stored]_vars

\* chat was called with a key whose only fault is one character just past
\* U+00FF, and failed with the validation error
C21_Witness ==
    /\ call.op = "chat"
    /\ llmConfig.apiKey = <<"k", "U+0100">>
    /\ call.settled
    /\ ~call.result.ok
    /\ call.fetches = 0

\* the data of a line of the body, or <<>> when it is not a data line
DataOfLine(line) ==
    IF line # <<>> /\ Head(line) = DataPrefix
    THEN SelectSeq(Tail(line), LAMBDA k : k # Space) ELSE <<>>

IsDoneLine(line) == DataOfLine(line) = <<DoneMark>>

\* the text a data line carries: the non-empty choices[0].delta.content of
\* its JSON chunk; <<>> when the line carries none
DeltaOf(line) ==
    LET data == DataOfLine(line)
    IN IF Len(data) = 1 /\ data[1].t = "chunk" /\ data[1].hasContent
       THEN data[1].content ELSE <<>>

\* the lines of the body before its first [DONE] line
RECURSIVE BeforeDone(_)
BeforeDone(lines) ==
    IF lines = <<>> \/ IsDoneLine(Head(lines)) THEN <<>>
    ELSE <<Head(lines)>> \o BeforeDone(Tail(lines))

\* the deltas of the lines, in order
RECURSIVE Deltas(_)
Deltas(lines) ==
    IF lines = <<>> THEN <<>>
    ELSE (IF DeltaOf(Head(lines)) = <<>> THEN <<>>
          ELSE <<DeltaOf(Head(lines))>>) \o Deltas(Tail(lines))

HasDoneLine(stream) ==
    \E i \in 1..Len(splitLines(stream)) : IsDoneLine(splitLines(stream)[i])

streaming == call.op = "chat" /\ "stream" \in DOMAIN call

\* C22: in streaming mode chat hands to onDelta the delta of every data
\* line before the [DONE] line, once each and in stream order, nothing
\* after [DONE], whichever way the body is cut into reads.
C22_DeltasBeforeDoneInOrder ==
    (streaming /\ HasDoneLine(call.stream)) =>
        LET expected == Deltas(BeforeDone(splitLines(call.stream)))
        IN /\ IsPrefix(call.delivered, expected)
           /\ call.settled => call.delivered = expected

\* a body read in three pieces, so that a line was cut: the delta before
\* [DONE] was delivered, and the loop returned without the data line after it
C22_Witness ==
    /\ streaming
    /\ call.settled
    /\ call.stream = <<DataPrefix, Chunk(TRUE, <<"a">>), LineFeed,
                       DataPrefix, DoneMark, LineFeed,
                       DataPrefix, Chunk(TRUE, <<"b">>), LineFeed>>
    /\ call.delivered = << <<"a">> >>
    /\ call.reads = 3
    /\ call.rest # <<>>

-----------------------------------------------------------------------------
(* More claims about the Matcher, checked under SpecMatch.                 *)

\* the empty string, or spaces only
OnlySpaces(s) == \A i \in 1..Len(s) : s[i] = " "

\* C23: a comparison string with no words (empty or only spaces) scores
\* exactly 0 against every query, whatever spaces the query contains.
C23_WordlessStringScoresZero ==
    (call.op = "calculateScore" /\ OnlySpaces(call.question)) =>
        ScoreEQ(call.result, Zero)

-----------------------------------------------------------------------------
(* Claims about the category collection, checked under SpecCats.           *)

\* the ids reached from the id x by following parentId, in up to n steps
RECURSIVE Ancestors(_, _, _)
Ancestors(S, cats, n) ==
    IF n = 0 THEN S
    ELSE Ancestors(S \cup {c.parentId : c \in {x \in Range(cats) : x.id \in S}},
                   cats, n - 1)

ParentsOf(id, cats) == {c.parentId : c \in {x \in Range(cats) : x.id = id}}

\* C24: after any sequence of addCategory, updateCategory, deleteCategory
\* and imports the categories are a forest: no category is its own ancestor.
C24_CategoriesAreAForest ==
    \A c \in Range(categories) :
        c.id \notin Ancestors(ParentsOf(c.id, categories), categories,
                              Len(categories))

-----------------------------------------------------------------------------
(* The two matchers of the repository, checked under SpecMatch.            *)

\* C25: findBestMatch of ChatInterface.tsx and findBestMatch of
\* KnowledgeEditor.tsx return the same result for every query and every
\* collection of knowledge points.
C25_MatchersAgree ==
    call.op = "findBestMatch" => call.chatInterface = call.result

\* the records of a collection
Records(collection) == {collection[i] : i \in 1..Len(collection)}

\* every record of before is a record of after, and a record of after that
\* before does not have carries an id no record of before has
OnlyAdds(before, after) ==
    /\ Records(before) \subseteq Records(after)
    /\ \A r \in Records(after) \ Records(before) :
          \A b \in Records(before) : b.id # r.id

\* C27: an import only adds: the categories and knowledge points the store
\* holds when the file read completes are all still there, unchanged, after
\* it, and what is appended carries ids the store did not have.
C27_ImportOnlyAdds ==
    knowledgeList.lastImport # Null =>
        /\ OnlyAdds(knowledgeList.lastImport.before.categories,
                    knowledgeList.lastImport.after.categories)
        /\ OnlyAdds(knowledgeList.lastImport.before.knowledgePoints,
                    knowledgeList.lastImport.after.knowledgePoints)

\* C28: deleteCategory returns for every collection the commands and the
\* import can produce, also when parentId links form a cycle.
C28_DeleteCategoryReturns ==
    call.op = "deleteCategory" => call.returned

-----------------------------------------------------------------------------
(* Claims about the unanswered-questions view, checked under SpecReview.   *)

\* turn t was submitted over a collection in which the point
\* handleConfirmAddToSimilar chose is published and holds the turn's text,
\* one of the texts it added, as a similar question
SubmittedAfterAdd(log, added, t) ==
    /\ added.op = "handleConfirmAddToSimilar"
    /\ log[t].query \in added.added
    /\ \E kp \in Range(log[t].kps) :
          /\ kp.id = added.targetKnowledgePointId
          /\ kp.status = "published"
          /\ log[t].query \in Range(kp.similarQuestions)

\* C29: a text that handleConfirmAddToSimilar has added to the similar
\* questions of a published point is matched to a point when it is submitted
\* again, and the reply to that submit adds no unanswered question.
C29_AddedQuestionIsAnswered ==
    [][\A t \in 1..Len(turnLog') :
          SubmittedAfterAdd(turnLog', call', t) =>
              /\ turnLog'[t].match # Null
              /\ (t <= Len(turnLog) /\ ~turnLog[t].fired /\ turnLog'[t].fired)
                     => unansweredQuestions' = unansweredQuestions]_vars

-----------------------------------------------------------------------------
(* Claims about the two tabs, checked under SpecTabs.                      *)

\* C26: once all pending storage events have been delivered, the values the
\* two tabs hold in memory are equal to each other and to the value in
\* localStorage.
C26_TabsConverge ==
    (\A t \in TabIds : tabs.events[t] = <<>>) =>
        \A t \in TabIds : tabs.memory[t] = tabs.storage

=============================================================================
